---- MODULE Spec2Model ----
(***************************************************************************)
(* Model of the boundary layer of cdpflare: the SQL guard                  *)
(* (packages/sql-guard: validator.ts, identifier.ts) and the remote query  *)
(* driver (packages/duckdb-http-adapter: connection.ts, prepared.ts).      *)
(* Text is a sequence of one-character strings, so that length, trim,      *)
(* lower-casing, splitting, substitution and the regular expressions are   *)
(* computed the way the code computes them.                                *)
(***************************************************************************)
EXTENDS Integers, Sequences, FiniteSets, TLC

VARIABLES
  pc,    \* "idle" before a call, "done" once the call has returned or thrown
  call,  \* the operation called and its arguments
  out,   \* the outcome of the call: a returned value or a thrown error
  conn,  \* the fields of the HttpDuckDBConnection
  calls, \* the run()/stream() calls on the connection, one frame of fetchQuery each
  prepared \* the fields of the HttpPreparedStatement

vars == <<pc, call, out, conn, calls, prepared>>

\* the state of the remote query driver
adapterVars == <<conn, calls, prepared>>

(***************************************************************************)
(* Characters and the string primitives of the runtime                     *)
(***************************************************************************)

UpperLetters ==
  <<"A","B","C","D","E","F","G","H","I","J","K","L","M","N","O","P","Q","R","S","T","U","V","W","X","Y","Z">>

LowerLetters ==
  <<"a","b","c","d","e","f","g","h","i","j","k","l","m","n","o","p","q","r","s","t","u","v","w","x","y","z">>

Digits == {"0","1","2","3","4","5","6","7","8","9"}

Range(s) == {s[i] : i \in 1..Len(s)}

Letters == Range(UpperLetters) \cup Range(LowerLetters)

IsLetter(c) == c \in Letters

IsDigit(c) == c \in Digits

\* \w of a regular expression
IsWordChar(c) == IsLetter(c) \/ IsDigit(c) \/ c = "_"

\* \s of a regular expression, and what String.prototype.trim removes
IsWhitespace(c) == c \in {" ", "\t", "\n", "\r"}

UpperSet == Range(UpperLetters)

\* the lower-case letter of an upper-case letter, any other character unchanged
LowerChar(c) ==
  IF c \in UpperSet
    THEN LowerLetters[CHOOSE i \in 1..Len(UpperLetters) : UpperLetters[i] = c]
    ELSE c

RECURSIVE ToLowerCase(_)
\* String.prototype.toLowerCase
ToLowerCase(s) ==
  IF s = <<>> THEN <<>> ELSE <<LowerChar(Head(s))>> \o ToLowerCase(Tail(s))

SetMin(S) == CHOOSE x \in S : \A y \in S : x <= y

SetMax(S) == CHOOSE x \in S : \A y \in S : y <= x

\* String.prototype.trim
Trim(s) ==
  LET keep == {i \in 1..Len(s) : ~IsWhitespace(s[i])}
  IN  IF keep = {} THEN <<>> ELSE SubSeq(s, SetMin(keep), SetMax(keep))

\* String.prototype.startsWith
StartsWith(s, p) == Len(p) <= Len(s) /\ SubSeq(s, 1, Len(p)) = p

RECURSIVE Concat(_)
Concat(ss) == IF ss = <<>> THEN <<>> ELSE Head(ss) \o Concat(Tail(ss))

(***************************************************************************)
(* validator.ts                                                            *)
(***************************************************************************)

DefaultMaxQueryLength == 10000

DEFAULT_CONFIG ==
  [selectOnly |-> TRUE, maxQueryLength |-> DefaultMaxQueryLength, blockDangerousFunctions |-> TRUE]

DANGEROUS_FUNCTIONS ==
  << <<"r","e","a","d","_","c","s","v">>,
     <<"r","e","a","d","_","c","s","v","_","a","u","t","o">>,
     <<"r","e","a","d","_","j","s","o","n">>,
     <<"r","e","a","d","_","j","s","o","n","_","a","u","t","o">>,
     <<"r","e","a","d","_","p","a","r","q","u","e","t">>,
     <<"r","e","a","d","_","b","l","o","b">>,
     <<"w","r","i","t","e","_","c","s","v">>,
     <<"w","r","i","t","e","_","p","a","r","q","u","e","t">>,
     <<"w","r","i","t","e","_","j","s","o","n">>,
     <<"c","o","p","y">>,
     <<"e","x","p","o","r","t","_","d","a","t","a","b","a","s","e">>,
     <<"i","m","p","o","r","t","_","d","a","t","a","b","a","s","e">>,
     <<"l","o","a","d">>,
     <<"i","n","s","t","a","l","l">>,
     <<"l","o","a","d","_","e","x","t","e","n","s","i","o","n">>,
     <<"i","n","s","t","a","l","l","_","e","x","t","e","n","s","i","o","n">> >>

\* An error message: the template that produced it and the values interpolated
\* into it (a text, a number).
ErrorMessage(kind, text, num) == [kind |-> kind, text |-> text, num |-> num]

EmptyQueryError == ErrorMessage("SQL query is empty", <<>>, 0)

TooLongError(max) == ErrorMessage("Query exceeds maximum length of ${num} bytes", <<>>, max)

ParseError(message) == ErrorMessage("Failed to parse SQL: ${text}", message, 0)

MultipleStatementsError == ErrorMessage("Multiple statements are not allowed", <<>>, 0)

UnidentifiedError == ErrorMessage("Unable to identify SQL statement type", <<>>, 0)

TypeNotAllowedError(type) ==
  ErrorMessage("${text} statements are not allowed. Only SELECT and SHOW statements are permitted.", type, 0)

WriteOperationError(type) == ErrorMessage("Write operations (${text}) are not allowed", type, 0)

FunctionNotAllowedError(func) ==
  ErrorMessage("Function '${text}' is not allowed for security reasons", func, 0)

\* { ...DEFAULT_CONFIG, ...config }: a key of config overrides the default
MergeConfig(defaults, config) ==
  [k \in DOMAIN defaults |-> IF k \in DOMAIN config THEN config[k] ELSE defaults[k]]

SELECT == <<"S","E","L","E","C","T">>

SHOW_ == <<"S","H","O","W","_">>

\* the prefix test inverted
isAllowedStatementType_Inverted(type) ==
  IF type = SELECT THEN TRUE
  ELSE IF ~StartsWith(type, SHOW_) THEN TRUE
  ELSE FALSE

isAllowedStatementType(type) ==
  IF type = SELECT THEN TRUE
  ELSE IF StartsWith(type, SHOW_) THEN TRUE
  ELSE FALSE

\* !sql || sql.trim().length === 0
IsEmptyQuery(sql) == Len(sql) = 0 \/ Len(Trim(sql)) = 0

\* sql.length > cfg.maxQueryLength
ExceedsMaxLength(sql, cfg) == Len(sql) > cfg.maxQueryLength

\* off by one: statements.length > 2
IsMultipleStatements_OffByOne(statements) == Len(statements) > 2

\* statements.length > 1
IsMultipleStatements(statements) == Len(statements) > 1

\* cfg.selectOnly && !isAllowedStatementType(stmt.type)
TypeErrors(cfg, stmt) ==
  IF cfg.selectOnly /\ ~isAllowedStatementType(stmt.type)
    THEN <<TypeNotAllowedError(stmt.type)>>
    ELSE <<>>

\* stmt.executionType === 'MODIFICATION'
ExecutionTypeErrors(stmt) ==
  IF stmt.executionType = "MODIFICATION"
    THEN <<WriteOperationError(stmt.type)>>
    ELSE <<>>

\* \s+ in place of \s*: a blank is required before the parenthesis
DangerousPatternTest_BlankRequired(func, text) ==
  \E i \in 1..(Len(text) - Len(func)) :
    /\ \A k \in 1..Len(func) : LowerChar(text[i + k - 1]) = LowerChar(func[k])
    /\ (i = 1 \/ ~IsWordChar(text[i - 1]))
    /\ \E j \in (i + Len(func) + 1)..Len(text) :
         /\ text[j] = "("
         /\ \A k \in (i + Len(func))..(j - 1) : IsWhitespace(text[k])

\* new RegExp(`\\b${func}\\s*\\(`, 'i').test(text): func starts with a word
\* character, so \b holds before it at the start of the text or after a
\* non-word character; the flag i compares letters without case.
DangerousPatternTest(func, text) ==
  \E i \in 1..(Len(text) - Len(func)) :
    /\ \A k \in 1..Len(func) : LowerChar(text[i + k - 1]) = LowerChar(func[k])
    /\ (i = 1 \/ ~IsWordChar(text[i - 1]))
    /\ \E j \in (i + Len(func))..Len(text) :
         /\ text[j] = "("
         /\ \A k \in (i + Len(func))..(j - 1) : IsWhitespace(text[k])

RECURSIVE ScanFunctions(_, _)
\* for (const func of DANGEROUS_FUNCTIONS) if (pattern.test(sqlLower)) errors.push(...)
ScanFunctions(funcs, sqlLower) ==
  IF funcs = <<>> THEN <<>>
  ELSE (IF DangerousPatternTest(Head(funcs), sqlLower)
          THEN <<FunctionNotAllowedError(Head(funcs))>>
          ELSE <<>>) \o ScanFunctions(Tail(funcs), sqlLower)

\* if (cfg.blockDangerousFunctions) { const sqlLower = sql.toLowerCase(); ... }
DangerousFunctionErrors(cfg, sql) ==
  IF cfg.blockDangerousFunctions
    THEN ScanFunctions(DANGEROUS_FUNCTIONS, ToLowerCase(sql))
    ELSE <<>>

Returned(value) == [kind |-> "return", value |-> value]

Thrown(message) == [kind |-> "throw", message |-> message]

\* no catch: what the classifier throws leaves validateSql
IdentifyCaught_NoCatch(identified) ==
  IF identified.kind = "throw"
    THEN identified
    ELSE [kind |-> "statements", value |-> identified.value]

\* try { statements = identify(sql, ...) } catch (err) { return {...} }
\* identified is the outcome of the call of the classifier: it was thrown or
\* it is the list of statements.
IdentifyCaught(identified) ==
  IF identified.kind = "throw"
    THEN Returned([valid |-> FALSE, errors |-> <<ParseError(identified.message)>>])
    ELSE [kind |-> "statements", value |-> identified.value]

\* valid computed before the function scan has added its errors
CheckStatement_ValidEarly(sql, cfg, stmt) ==
  LET early == TypeErrors(cfg, stmt) \o ExecutionTypeErrors(stmt)
      errors == early \o DangerousFunctionErrors(cfg, sql)
  IN  Returned([valid |-> Len(early) = 0, errors |-> errors, statementType |-> stmt.type])

\* the write check made only under selectOnly
CheckStatement_WriteCheckUnderSelectOnly(sql, cfg, stmt) ==
  LET errors == TypeErrors(cfg, stmt)
                  \o (IF cfg.selectOnly THEN ExecutionTypeErrors(stmt) ELSE <<>>)
                  \o DangerousFunctionErrors(cfg, sql)
  IN  Returned([valid |-> Len(errors) = 0, errors |-> errors, statementType |-> stmt.type])

\* the function scan made before the two checks of the statement
CheckStatement_ScanFirst(sql, cfg, stmt) ==
  LET errors == DangerousFunctionErrors(cfg, sql)
                  \o TypeErrors(cfg, stmt) \o ExecutionTypeErrors(stmt)
  IN  Returned([valid |-> Len(errors) = 0, errors |-> errors, statementType |-> stmt.type])

\* the accumulating path: lines 121-149
CheckStatement(sql, cfg, stmt) ==
  LET errors == TypeErrors(cfg, stmt) \o ExecutionTypeErrors(stmt)
                  \o DangerousFunctionErrors(cfg, sql)
  IN  Returned([valid |-> Len(errors) = 0, errors |-> errors, statementType |-> stmt.type])

validateSql(sql, config, identified) ==
  LET cfg == MergeConfig(DEFAULT_CONFIG, config)
      parsed == IdentifyCaught(identified)
  IN  IF IsEmptyQuery(sql)
        THEN Returned([valid |-> FALSE, errors |-> <<EmptyQueryError>>])
      ELSE IF ExceedsMaxLength(sql, cfg)
        THEN Returned([valid |-> FALSE, errors |-> <<TooLongError(cfg.maxQueryLength)>>])
      ELSE IF parsed.kind # "statements"
        THEN parsed
      ELSE IF IsMultipleStatements(parsed.value)
        THEN Returned([valid |-> FALSE, errors |-> <<MultipleStatementsError>>])
      ELSE IF Len(parsed.value) = 0
        THEN Returned([valid |-> FALSE, errors |-> <<UnidentifiedError>>])
      ELSE CheckStatement(sql, cfg, parsed.value[1])

\* const result = validateSql(sql, { selectOnly: true }); return result.valid
isReadOnlyQuery(sql, identified) ==
  LET result == validateSql(sql, [selectOnly |-> TRUE], identified)
  IN  IF result.kind = "return" THEN Returned(result.value.valid) ELSE result

(***************************************************************************)
(* identifier.ts                                                           *)
(***************************************************************************)

DefaultMaxLength == 63

analytics == <<"a","n","a","l","y","t","i","c","s">>

DEFAULT_IDENTIFIER_CONFIG == [allowedNamespaces |-> <<analytics>>, maxLength |-> DefaultMaxLength]

SQL_KEYWORDS ==
  {  <<"s","e","l","e","c","t">>, <<"f","r","o","m">>, <<"w","h","e","r","e">>,
     <<"a","n","d">>, <<"o","r">>, <<"n","o","t">>, <<"i","n">>, <<"i","s">>,
     <<"n","u","l","l">>,
     <<"t","r","u","e">>, <<"f","a","l","s","e">>, <<"l","i","k","e">>,
     <<"b","e","t","w","e","e","n">>, <<"e","x","i","s","t","s">>,
     <<"c","a","s","e">>, <<"w","h","e","n">>, <<"t","h","e","n">>,
     <<"e","l","s","e">>, <<"e","n","d">>, <<"j","o","i","n">>,
     <<"i","n","n","e","r">>, <<"o","u","t","e","r">>, <<"l","e","f","t">>,
     <<"r","i","g","h","t">>, <<"f","u","l","l">>,
     <<"c","r","o","s","s">>, <<"o","n">>, <<"a","s">>, <<"o","r","d","e","r">>,
     <<"b","y">>, <<"g","r","o","u","p">>, <<"h","a","v","i","n","g">>,
     <<"l","i","m","i","t">>,
     <<"o","f","f","s","e","t">>, <<"u","n","i","o","n">>,
     <<"i","n","t","e","r","s","e","c","t">>, <<"e","x","c","e","p","t">>,
     <<"a","l","l">>, <<"d","i","s","t","i","n","c","t">>,
     <<"i","n","s","e","r","t">>, <<"i","n","t","o">>, <<"v","a","l","u","e","s">>,
     <<"u","p","d","a","t","e">>, <<"s","e","t">>, <<"d","e","l","e","t","e">>,
     <<"d","r","o","p">>,
     <<"c","r","e","a","t","e">>, <<"a","l","t","e","r">>, <<"t","a","b","l","e">>,
     <<"i","n","d","e","x">>, <<"v","i","e","w">>,
     <<"d","a","t","a","b","a","s","e">>, <<"s","c","h","e","m","a">>,
     <<"t","r","u","n","c","a","t","e">>, <<"g","r","a","n","t">>,
     <<"r","e","v","o","k","e">>, <<"p","r","i","m","a","r","y">>, <<"k","e","y">>,
     <<"f","o","r","e","i","g","n">>, <<"r","e","f","e","r","e","n","c","e","s">>,
     <<"c","o","n","s","t","r","a","i","n","t">>, <<"d","e","f","a","u","l","t">>,
     <<"c","h","e","c","k">>, <<"u","n","i","q","u","e">>,
     <<"c","a","s","c","a","d","e">>, <<"r","e","s","t","r","i","c","t">> }

\* IDENTIFIER_PATTERN.test(s): /^[a-zA-Z_][a-zA-Z0-9_]*$/
IDENTIFIER_PATTERN(s) ==
  /\ Len(s) >= 1
  /\ (IsLetter(s[1]) \/ s[1] = "_")
  /\ \A i \in 2..Len(s) : IsLetter(s[i]) \/ IsDigit(s[i]) \/ s[i] = "_"

RECURSIVE Join(_, _)
\* Array.prototype.join
Join(list, sep) ==
  IF list = <<>> THEN <<>>
  ELSE IF Len(list) = 1 THEN list[1]
  ELSE list[1] \o sep \o Join(Tail(list), sep)

RECURSIVE Split(_, _)
\* String.prototype.split with a one-character separator
Split(s, sep) ==
  IF \A i \in 1..Len(s) : s[i] # sep THEN <<s>>
  ELSE LET d == SetMin({i \in 1..Len(s) : s[i] = sep})
       IN  <<SubSeq(s, 1, d - 1)>> \o Split(SubSeq(s, d + 1, Len(s)), sep)

Rejected(error) == [valid |-> FALSE, error |-> error]

EmptyIdentifierError == [kind |-> "Identifier is empty"]

IdentifierTooLongError(max) ==
  [kind |-> "Identifier exceeds maximum length of ${max} characters", max |-> max]

IdentifierPatternError ==
  [kind |-> "Identifier must start with a letter or underscore and contain only letters, digits, or underscores"]

ReservedKeywordError(trimmed) ==
  [kind |-> "'${trimmed}' is a SQL reserved keyword", trimmed |-> trimmed]

NamespaceNotAllowedError(namespace, allowedNamespaces) ==
  [kind |-> "Namespace '${namespace}' is not in the allowed list: [${list}]",
   namespace |-> namespace, list |-> Join(allowedNamespaces, <<",", " ">>)]

MalformedError == [kind |-> "Qualified table name must be in format \"namespace.table\""]

InvalidNamespaceError(error) == [kind |-> "Invalid namespace: ${error}", error |-> error]

InvalidTableNameError(error) == [kind |-> "Invalid table name: ${error}", error |-> error]

\* the result carries the identifier between double quotes
IdentifierAccepted_Quoted(trimmed) ==
  [valid |-> TRUE, sanitized |-> <<"\"">> \o trimmed \o <<"\"">>]

\* return { valid: true, sanitized: trimmed }
IdentifierAccepted(trimmed) == [valid |-> TRUE, sanitized |-> trimmed]

\* the pattern is tested before the length
validateIdentifier_PatternFirst(identifier, config) ==
  LET cfg == MergeConfig(DEFAULT_IDENTIFIER_CONFIG, config)
      trimmed == Trim(identifier)
  IN  IF Len(identifier) = 0 \/ Len(Trim(identifier)) = 0
        THEN Rejected(EmptyIdentifierError)
      ELSE IF ~IDENTIFIER_PATTERN(trimmed)
        THEN Rejected(IdentifierPatternError)
      ELSE IF Len(trimmed) > cfg.maxLength
        THEN Rejected(IdentifierTooLongError(cfg.maxLength))
      ELSE IF ToLowerCase(trimmed) \in SQL_KEYWORDS
        THEN Rejected(ReservedKeywordError(trimmed))
      ELSE IdentifierAccepted(trimmed)

validateIdentifier(identifier, config) ==
  LET cfg == MergeConfig(DEFAULT_IDENTIFIER_CONFIG, config)
      trimmed == Trim(identifier)
  IN  IF Len(identifier) = 0 \/ Len(Trim(identifier)) = 0
        THEN Rejected(EmptyIdentifierError)
      ELSE IF Len(trimmed) > cfg.maxLength
        THEN Rejected(IdentifierTooLongError(cfg.maxLength))
      ELSE IF ~IDENTIFIER_PATTERN(trimmed)
        THEN Rejected(IdentifierPatternError)
      ELSE IF ToLowerCase(trimmed) \in SQL_KEYWORDS
        THEN Rejected(ReservedKeywordError(trimmed))
      ELSE IdentifierAccepted(trimmed)

\* the allow-list consulted only when it has several entries
HasAllowlist_Several(cfg) == Len(cfg.allowedNamespaces) > 1

\* cfg.allowedNamespaces.length > 0
HasAllowlist(cfg) == Len(cfg.allowedNamespaces) > 0

\* allowed.includes(normalizedNamespace), allowed being the list lower-cased
AllowlistIncludes(cfg, namespace) ==
  LET normalizedNamespace == ToLowerCase(namespace)
      allowed == [i \in 1..Len(cfg.allowedNamespaces) |-> ToLowerCase(cfg.allowedNamespaces[i])]
  IN  \E i \in 1..Len(allowed) : allowed[i] = normalizedNamespace

validateNamespace(namespace, config) ==
  LET cfg == MergeConfig(DEFAULT_IDENTIFIER_CONFIG, config)
      result == validateIdentifier(namespace, config)
  IN  IF ~result.valid
        THEN result
      ELSE IF HasAllowlist(cfg) /\ ~AllowlistIncludes(cfg, namespace)
        THEN Rejected(NamespaceNotAllowedError(namespace, cfg.allowedNamespaces))
      ELSE result

\* the first two of three or more parts are taken
IsMalformed_AtLeastTwo(parts) == Len(parts) < 2

\* parts.length !== 2
IsMalformed(parts) == Len(parts) # 2

validateQualifiedTableName(qualifiedName, config) ==
  LET parts == Split(qualifiedName, ".")
  IN  IF IsMalformed(parts)
        THEN Rejected(MalformedError)
      ELSE
        LET namespace == parts[1]
            tableName == parts[2]
            nsResult == validateNamespace(namespace, config)
            tableResult == validateIdentifier(tableName, config)
        IN  IF ~nsResult.valid
              THEN Rejected(InvalidNamespaceError(nsResult.error))
            ELSE IF ~tableResult.valid
              THEN Rejected(InvalidTableNameError(tableResult.error))
            ELSE [valid |-> TRUE,
                  sanitized |-> nsResult.sanitized \o <<".">> \o tableResult.sanitized]

(***************************************************************************)
(* Calls of the statement validator                                        *)
(***************************************************************************)

MaxChunks == 3

MaxStatements == 2

SmallMaxQueryLength == 9

\* The pieces the query texts are built of: a deny-listed function name in
\* two letter cases, a word character, a blank, the two punctuation
\* characters the validator and the classifier react to.
SqlChunks ==
  { <<"r","e","a","d","_","c","s","v">>,
    <<"R","e","a","d","_","C","S","V">>,
    <<"x">>, <<" ">>, <<"(">>, <<";">> }

RECURSIVE ChunkSeqs(_, _)
ChunkSeqs(chunks, n) ==
  IF n = 0 THEN {<<>>}
  ELSE LET shorter == ChunkSeqs(chunks, n - 1)
       IN  shorter \cup {s \o <<c>> : s \in {t \in shorter : Len(t) = n - 1}, c \in chunks}

SqlTexts == {Concat(cs) : cs \in ChunkSeqs(SqlChunks, MaxChunks)}

\* A caller's SqlGuardConfig: every key is optional; a key that is given
\* holds a value other than its default.
SqlGuardConfigs ==
  { [k \in ks |-> [selectOnly |-> FALSE, maxQueryLength |-> SmallMaxQueryLength,
                   blockDangerousFunctions |-> FALSE][k]]
      : ks \in SUBSET {"selectOnly", "maxQueryLength", "blockDangerousFunctions"} }

StatementTypes ==
  { SELECT,
    <<"S","H","O","W","_","T","A","B","L","E","S">>,
    <<"I","N","S","E","R","T">>,
    <<"U","N","K","N","O","W","N">> }

ExecutionTypes == {"LISTING", "MODIFICATION", "UNKNOWN"}

Statements == [type : StatementTypes, executionType : ExecutionTypes]

\* The statements of a stacked text, of which the validator reads the number.
StackedStatements ==
  { [type |-> SELECT, executionType |-> "LISTING"],
    [type |-> <<"I","N","S","E","R","T">>, executionType |-> "MODIFICATION"] }

RECURSIVE StatementLists(_)
StatementLists(n) ==
  IF n = 0 THEN {<<>>}
  ELSE IF n = 1 THEN {<<>>} \cup {<<s>> : s \in Statements}
  ELSE LET shorter == StatementLists(n - 1)
           longest == IF n = 2 THEN {<<s>> : s \in StackedStatements}
                               ELSE {t \in shorter : Len(t) = n - 1}
       IN  shorter \cup {l \o <<f>> : l \in longest, f \in StackedStatements}

AllStatementLists == StatementLists(MaxStatements)

CountOf(s, c) == Cardinality({i \in 1..Len(s) : s[i] = c})

\* identify(sql, { dialect: 'psql', strict: false }) is the classifier of the
\* library sql-query-identifier: it throws, or it returns one record per
\* statement it found. Statements are delimited by ';', so it finds at most
\* one more statement than the text has semicolons, and it finds none only
\* in a text without a word; which type and execution type it reports is
\* the library's choice.
IdentifyOutcomes(sql) ==
  {Thrown(<<"e">>)}
    \cup { [kind |-> "return", value |-> l]
             : l \in {t \in AllStatementLists :
                        /\ Len(t) <= CountOf(sql, ";") + 1
                        /\ Len(t) = 0 => \A i \in 1..Len(sql) : ~IsWordChar(sql[i])} }

\* identify is called at line 97, once the text has passed the checks of
\* lines 82 and 87; a call that returns before has no classifier outcome.
NotIdentified == [kind |-> "not called"]

IdentifyCall(sql, config) ==
  IF IsEmptyQuery(sql) \/ ExceedsMaxLength(sql, MergeConfig(DEFAULT_CONFIG, config))
    THEN {NotIdentified}
    ELSE IdentifyOutcomes(sql)

NoCall == [op |-> "none"]

NoOutcome == [kind |-> "none"]

\* no connection has been constructed
NoConnection == [endpoint |-> <<>>]

\* no statement has been prepared
NoStatement == [query |-> <<>>]

Init ==
  /\ pc = "idle"
  /\ call = NoCall
  /\ out = NoOutcome
  /\ conn = NoConnection
  /\ calls = <<>>
  /\ prepared = NoStatement

CallValidateSql ==
  /\ pc = "idle"
  /\ \E sql \in SqlTexts, config \in SqlGuardConfigs :
       \E identified \in IdentifyCall(sql, config) :
         /\ call' = [op |-> "validateSql", sql |-> sql, config |-> config,
                     identified |-> identified]
         /\ out' = validateSql(sql, config, identified)
  /\ pc' = "done"
  /\ UNCHANGED adapterVars

CallIsReadOnlyQuery ==
  /\ pc = "idle"
  /\ \E sql \in SqlTexts :
       \E identified \in IdentifyCall(sql, [selectOnly |-> TRUE]) :
         /\ call' = [op |-> "isReadOnlyQuery", sql |-> sql, identified |-> identified]
         /\ out' = isReadOnlyQuery(sql, identified)
  /\ pc' = "done"
  /\ UNCHANGED adapterVars

NextGuard ==
  \/ CallValidateSql
  \/ CallIsReadOnlyQuery

SpecGuard == Init /\ [][NextGuard]_vars

(***************************************************************************)
(* Calls of the identifier validator                                       *)
(***************************************************************************)

MaxIdentChunks == 4

SmallMaxLength == 2

\* The pieces the identifiers are built of: the default namespace, letters
\* in both cases (a, A, s spell the keyword 'as'), a digit, a blank, the dot.
IdentChunks == { analytics, <<"a">>, <<"A">>, <<"s">>, <<"1">>, <<" ">>, <<".">> }

IdentTexts == {Concat(cs) : cs \in ChunkSeqs(IdentChunks, MaxIdentChunks)}

\* A caller's IdentifierConfig: every key is optional.
IdentifierConfigs ==
  { [k \in ks |-> [maxLength |-> SmallMaxLength, allowedNamespaces |-> allowed][k]]
      : ks \in SUBSET {"maxLength", "allowedNamespaces"},
        allowed \in { <<>>, << <<"A","a">>, analytics >> } }

CallValidateIdentifier ==
  /\ pc = "idle"
  /\ \E identifier \in IdentTexts, config \in IdentifierConfigs :
       /\ call' = [op |-> "validateIdentifier", identifier |-> identifier, config |-> config]
       /\ out' = Returned(validateIdentifier(identifier, config))
  /\ pc' = "done"
  /\ UNCHANGED adapterVars

CallValidateNamespace ==
  /\ pc = "idle"
  /\ \E namespace \in IdentTexts, config \in IdentifierConfigs :
       /\ call' = [op |-> "validateNamespace", namespace |-> namespace, config |-> config]
       /\ out' = Returned(validateNamespace(namespace, config))
  /\ pc' = "done"
  /\ UNCHANGED adapterVars

CallValidateQualifiedTableName ==
  /\ pc = "idle"
  /\ \E qualifiedName \in IdentTexts, config \in IdentifierConfigs :
       /\ call' = [op |-> "validateQualifiedTableName", qualifiedName |-> qualifiedName,
                   config |-> config]
       /\ out' = Returned(validateQualifiedTableName(qualifiedName, config))
  /\ pc' = "done"
  /\ UNCHANGED adapterVars

NextIdent ==
  \/ CallValidateIdentifier
  \/ CallValidateNamespace
  \/ CallValidateQualifiedTableName

SpecIdent == Init /\ [][NextIdent]_vars

(***************************************************************************)
(* Claims about the statement validator                                    *)
(***************************************************************************)

ValidateSqlDone == pc = "done" /\ call.op = "validateSql"

IsReadOnlyQueryDone == pc = "done" /\ call.op = "isReadOnlyQuery"

\* the configuration a call runs under
EffectiveConfig ==
  IF call.op = "validateSql" THEN MergeConfig(DEFAULT_CONFIG, call.config)
  ELSE MergeConfig(DEFAULT_CONFIG, [selectOnly |-> TRUE])

\* the classifier ran and returned n statements
ClassifiedAs(n) == call.identified.kind = "return" /\ Len(call.identified.value) = n

ClassifiedAsSeveral == call.identified.kind = "return" /\ Len(call.identified.value) >= 2

ErrorsOf(o) == {o.value.errors[i] : i \in 1..Len(o.value.errors)}

read_csv == <<"r","e","a","d","_","c","s","v">>

\* whether p occurs in s at position i
OccursAt(s, p, i) ==
  /\ i >= 1
  /\ i + Len(p) - 1 <= Len(s)
  /\ \A k \in 1..Len(p) : s[i + k - 1] = p[k]

\* whether p occurs in s
Contains(s, p) == \E i \in 1..(Len(s) + 1) : OccursAt(s, p, i)

\* C1: a text classified as two or more statements is refused with the
\* error 'Multiple statements are not allowed', whatever selectOnly is.
C1_MultipleStatementsRejected ==
  (ValidateSqlDone /\ ClassifiedAsSeveral)
    => out = Returned([valid |-> FALSE, errors |-> <<MultipleStatementsError>>])

C1_Witness ==
  /\ ValidateSqlDone
  /\ ClassifiedAsSeveral
  /\ ~EffectiveConfig.selectOnly
  /\ CountOf(call.sql, ";") = 1
  /\ out.value.errors = <<MultipleStatementsError>>

\* the text contains read_csv( in any letter case
ContainsReadCsvParen(sql) == Contains(ToLowerCase(sql), read_csv \o <<"(">>)

\* ... with the name at the start of the text or after a non-word character
ContainsReadCsvParenAtBoundary(sql) ==
  \E i \in 1..Len(sql) :
    /\ OccursAt(ToLowerCase(sql), read_csv \o <<"(">>, i)
    /\ (i = 1 \/ ~IsWordChar(sql[i - 1]))

\* C2 as stated: every text containing read_csv( is reported under
\* blockDangerousFunctions=true, and not under blockDangerousFunctions=false.
C2_Original ==
  (ValidateSqlDone /\ ContainsReadCsvParen(call.sql))
    => /\ out.kind = "return"
       /\ EffectiveConfig.blockDangerousFunctions
            <=> FunctionNotAllowedError(read_csv) \in ErrorsOf(out)

\* C2 amended: a text classified as exactly one statement that contains
\* read_csv( in any letter case, the name standing at the start of the text
\* or after a non-word character, is reported under
\* blockDangerousFunctions=true; under blockDangerousFunctions=false no
\* text gets an error about read_csv.
C2_ReadCsvReportedOnAccumulatingPath ==
  ValidateSqlDone
    => /\ out.kind = "return"
       /\ (ClassifiedAs(1) /\ ContainsReadCsvParenAtBoundary(call.sql)
             /\ EffectiveConfig.blockDangerousFunctions)
            => FunctionNotAllowedError(read_csv) \in ErrorsOf(out)
       /\ ~EffectiveConfig.blockDangerousFunctions
            => FunctionNotAllowedError(read_csv) \notin ErrorsOf(out)

C2_Witness ==
  /\ ValidateSqlDone
  /\ ClassifiedAs(1)
  /\ ContainsReadCsvParenAtBoundary(call.sql)
  /\ ~Contains(call.sql, read_csv)
  /\ EffectiveConfig.blockDangerousFunctions
  /\ FunctionNotAllowedError(read_csv) \in ErrorsOf(out)

\* C3: a single statement of execution type MODIFICATION is refused with a
\* write-operation error under every configuration.
C3_ModificationRejected ==
  (ValidateSqlDone /\ ClassifiedAs(1)
     /\ call.identified.value[1].executionType = "MODIFICATION")
    => /\ out.kind = "return"
       /\ out.value.valid = FALSE
       /\ WriteOperationError(call.identified.value[1].type) \in ErrorsOf(out)

C3_Witness ==
  /\ ValidateSqlDone
  /\ ClassifiedAs(1)
  /\ call.identified.value[1].executionType = "MODIFICATION"
  /\ ~EffectiveConfig.selectOnly
  /\ ~EffectiveConfig.blockDangerousFunctions
  /\ out.value.valid = FALSE

\* the call accepted the text
Accepted ==
  \/ ValidateSqlDone /\ out.kind = "return" /\ out.value.valid
  \/ IsReadOnlyQueryDone /\ out.kind = "return" /\ out.value

\* C4: what is accepted under selectOnly=true (by validateSql or by
\* isReadOnlyQuery) was classified as exactly one statement, of type SELECT
\* or of a type beginning with SHOW_, and not of execution type MODIFICATION.
C4_AcceptedIsReadOnly ==
  (Accepted /\ EffectiveConfig.selectOnly)
    => /\ ClassifiedAs(1)
       /\ LET stmt == call.identified.value[1]
          IN  /\ \/ stmt.type = <<"S","E","L","E","C","T">>
                 \/ (Len(stmt.type) >= 5 /\ SubSeq(stmt.type, 1, 5) = <<"S","H","O","W","_">>)
              /\ stmt.executionType # "MODIFICATION"

C4_Witness ==
  /\ IsReadOnlyQueryDone
  /\ out = Returned(TRUE)
  /\ ClassifiedAs(1)
  /\ call.identified.value[1].type = <<"S","H","O","W","_","T","A","B","L","E","S">>

\* C5: validateSql always returns; when the classifier throws, it returns
\* valid=false with the single error 'Failed to parse SQL: <message>'.
C5_NeverThrows ==
  ValidateSqlDone
    => /\ out.kind = "return"
       /\ call.identified.kind = "throw"
            => out.value = [valid |-> FALSE, errors |-> <<ParseError(call.identified.message)>>]

C5_Witness ==
  /\ ValidateSqlDone
  /\ call.identified.kind = "throw"
  /\ out.kind = "return"
  /\ Len(out.value.errors) = 1

\* C6: every result validateSql returns has valid exactly when errors is empty.
C6_ValidIffNoErrors ==
  (ValidateSqlDone /\ out.kind = "return")
    => (out.value.valid <=> Len(out.value.errors) = 0)

C6_Witness ==
  /\ ValidateSqlDone
  /\ out.kind = "return"
  /\ "statementType" \in DOMAIN out.value
  /\ ~out.value.valid
  /\ out.value.errors = <<FunctionNotAllowedError(read_csv)>>

(***************************************************************************)
(* Claims about the identifier validator                                   *)
(***************************************************************************)

ValidateIdentifierDone == pc = "done" /\ call.op = "validateIdentifier"

ValidateNamespaceDone == pc = "done" /\ call.op = "validateNamespace"

ValidateQualifiedTableNameDone == pc = "done" /\ call.op = "validateQualifiedTableName"

\* the identifier configuration a call runs under
EffectiveIdentifierConfig == MergeConfig(DEFAULT_IDENTIFIER_CONFIG, call.config)

\* the lower-cased allowedNamespaces, as a set
LowerCasedAllowed(cfg) ==
  {ToLowerCase(cfg.allowedNamespaces[i]) : i \in 1..Len(cfg.allowedNamespaces)}

\* C7 as stated: valid only for a valid identifier whose lower-cased value is
\* in the lower-cased allow-list, an empty allow-list included; a valid
\* identifier that is not in the list gets the error naming the allowed set.
C7_Original ==
  ValidateNamespaceDone
    => LET cfg == EffectiveIdentifierConfig
           member == ToLowerCase(call.namespace) \in LowerCasedAllowed(cfg)
           identifierResult == validateIdentifier(call.namespace, call.config)
       IN  /\ out.value.valid => (identifierResult.valid /\ member)
           /\ (identifierResult.valid /\ ~member)
                => out.value = Rejected(NamespaceNotAllowedError(call.namespace,
                                                                 cfg.allowedNamespaces))

\* C7 amended: valid only for a valid identifier whose lower-cased value is in
\* the lower-cased allow-list when that list is not empty; with an empty
\* list every valid identifier is accepted; a valid identifier that is not
\* in a non-empty list gets the error naming the namespace and the full list.
C7_NamespaceAllowlisted ==
  ValidateNamespaceDone
    => LET cfg == EffectiveIdentifierConfig
           member == ToLowerCase(call.namespace) \in LowerCasedAllowed(cfg)
           identifierResult == validateIdentifier(call.namespace, call.config)
       IN  /\ out.value.valid
                => /\ identifierResult.valid
                   /\ cfg.allowedNamespaces # <<>> => member
           /\ (identifierResult.valid /\ cfg.allowedNamespaces = <<>>)
                => out.value.valid
           /\ (identifierResult.valid /\ cfg.allowedNamespaces # <<>> /\ ~member)
                => out.value = Rejected(NamespaceNotAllowedError(call.namespace,
                                                                 cfg.allowedNamespaces))

C7_Witness ==
  /\ ValidateNamespaceDone
  /\ out.value.valid
  /\ Len(EffectiveIdentifierConfig.allowedNamespaces) = 2
  /\ call.namespace \notin Range(EffectiveIdentifierConfig.allowedNamespaces)

\* s is t with blanks added in front and behind, t starting and ending
\* with a character that is not a blank
IsPaddingOf(s, t) ==
  /\ Len(t) >= 1
  /\ ~IsWhitespace(t[1])
  /\ ~IsWhitespace(t[Len(t)])
  /\ \E lead \in 0..(Len(s) - Len(t)) :
       /\ \A i \in 1..lead : IsWhitespace(s[i])
       /\ \A i \in 1..Len(t) : s[lead + i] = t[i]
       /\ \A i \in (lead + Len(t) + 1)..Len(s) : IsWhitespace(s[i])

IsPlainName(s) ==
  /\ s # <<>>
  /\ s[1] \in Range(UpperLetters) \cup Range(LowerLetters) \cup {"_"}
  /\ \A i \in 2..Len(s) :
       s[i] \in Range(UpperLetters) \cup Range(LowerLetters) \cup Digits \cup {"_"}

IsBlank(s) == \A i \in 1..Len(s) : IsWhitespace(s[i])

\* the error of the first check that id fails, in the order empty, too long,
\* pattern, reserved; "none" when it passes all four
FirstFailure(id, maxLength) ==
  IF IsBlank(id) THEN EmptyIdentifierError
  ELSE IF Len(id) > maxLength THEN IdentifierTooLongError(maxLength)
  ELSE IF ~IsPlainName(id) THEN IdentifierPatternError
  ELSE IF ToLowerCase(id) \in SQL_KEYWORDS THEN ReservedKeywordError(id)
  ELSE [kind |-> "none"]

Unpadded(s) ==
  IF IsBlank(s) THEN <<>>
  ELSE LET first == CHOOSE i \in 1..Len(s) :
                      ~IsWhitespace(s[i]) /\ \A k \in 1..(i - 1) : IsWhitespace(s[k])
           last == CHOOSE j \in 1..Len(s) :
                     ~IsWhitespace(s[j]) /\ \A k \in (j + 1)..Len(s) : IsWhitespace(s[k])
       IN  SubSeq(s, first, last)

HasOneDot(s) == Cardinality({i \in 1..Len(s) : s[i] = "."}) = 1

DotAt(s) == CHOOSE i \in 1..Len(s) : s[i] = "."

BeforeDot(s) == SubSeq(s, 1, DotAt(s) - 1)

AfterDot(s) == SubSeq(s, DotAt(s) + 1, Len(s))

NullValue == [type |-> "null"]

BooleanValue(b) == [type |-> "boolean", value |-> b]

NumberValue(n) == [type |-> "number", value |-> n]

BigIntValue(n) == [type |-> "bigint", value |-> n]

StringValue(s) == [type |-> "string", value |-> s]

\* a Date whose toISOString() gives the text iso
DateValue(iso) == [type |-> "Date", valid |-> TRUE, iso |-> iso]

\* new Date(NaN): toISOString() throws a RangeError
InvalidDate == [type |-> "Date", valid |-> FALSE]

ArrayValue(items) == [type |-> "array", items |-> items]

\* an Error object: its name and its message text
ErrorObject(name, message) == [name |-> name, message |-> message]

\* a call that throws, or a promise that rejects with, the error
ThrownError(error) == [kind |-> "throw", error |-> error]

InvalidTimeValue ==
  ErrorObject("RangeError", <<"I","n","v","a","l","i","d"," ","t","i","m","e"," ","v","a","l","u","e">>)

DigitChars == <<"0","1","2","3","4","5","6","7","8","9">>

RECURSIVE NatToString(_)
\* the decimal digits of a natural number
NatToString(n) ==
  IF n < 10 THEN <<DigitChars[n + 1]>>
  ELSE NatToString(n \div 10) \o <<DigitChars[(n % 10) + 1]>>

\* String(value) of an integer
NumberToString(n) == IF n < 0 THEN <<"-">> \o NatToString(0 - n) ELSE NatToString(n)

NULL == <<"N","U","L","L">>

TRUE_ == <<"T","R","U","E">>

FALSE_ == <<"F","A","L","S","E">>

\* whether the text p stands in s at position i
MatchesAt(s, p, i) ==
  /\ i + Len(p) - 1 <= Len(s)
  /\ \A k \in 1..Len(p) : s[i + k - 1] = p[k]

RECURSIVE SplitText(_, _)
\* String.prototype.split with a separator text that is not empty
SplitText(s, sep) ==
  LET at == {i \in 1..Len(s) : MatchesAt(s, sep, i)}
  IN  IF at = {} THEN <<s>>
      ELSE LET d == SetMin(at)
           IN  <<SubSeq(s, 1, d - 1)>> \o SplitText(SubSeq(s, d + Len(sep), Len(s)), sep)

\* value.replace(/'/g, "''") with only the first quote doubled
EscapeQuotes_FirstOnly(s) ==
  LET at == {i \in 1..Len(s) : s[i] = "'"}
  IN  IF at = {} THEN s
      ELSE SubSeq(s, 1, SetMin(at)) \o <<"'">> \o SubSeq(s, SetMin(at) + 1, Len(s))

\* value.replace(/'/g, "''")
EscapeQuotes(s) == Join(SplitText(s, <<"'">>), <<"'", "'">>)

\* the single-element branch left out
IsSingleNumber_Never(items) == FALSE

\* value.length === 1 && typeof value[0] === 'number'
IsSingleNumber(items) == Len(items) = 1 /\ items[1].type = "number"

RECURSIVE formatValue(_)
\* the encoded literal of a value, or the error its encoding throws
formatValue(value) ==
  IF value.type = "null" THEN Returned(NULL)
  ELSE IF value.type = "boolean" THEN Returned(IF value.value THEN TRUE_ ELSE FALSE_)
  ELSE IF value.type = "number" THEN Returned(NumberToString(value.value))
  ELSE IF value.type = "bigint" THEN Returned(NumberToString(value.value))
  ELSE IF value.type = "string"
    THEN Returned(<<"'">> \o EscapeQuotes(value.value) \o <<"'">>)
  ELSE IF value.type = "Date"
    THEN IF value.valid THEN Returned(<<"'">> \o value.iso \o <<"'">>)
         ELSE ThrownError(InvalidTimeValue)
  ELSE IF IsSingleNumber(value.items)
    THEN Returned(NumberToString(value.items[1].value))
  ELSE LET formatted == [i \in 1..Len(value.items) |-> formatValue(value.items[i])]
           failed == {i \in 1..Len(value.items) : formatted[i].kind = "throw"}
       IN  IF failed # {} THEN formatted[SetMin(failed)]
           ELSE Returned(<<"[">>
                         \o Join([i \in 1..Len(value.items) |-> formatted[i].value], <<",", " ">>)
                         \o <<"]">>)

\* `$${i + 1}` of the loop, for the 1-based position i
Placeholder(i) == <<"$">> \o NatToString(i)

RECURSIVE SubstituteFrom(_, _, _)
\* the loop of substituteParams from the i-th parameter on
SubstituteFrom(result, params, i) ==
  IF i > Len(params) THEN Returned(result)
  ELSE LET value == formatValue(params[i])
       IN  IF value.kind = "throw" THEN value
           ELSE SubstituteFrom(Join(SplitText(result, Placeholder(i)), value.value),
                               params, i + 1)

substituteParams(query, params) ==
  IF Len(params) = 0 THEN Returned(query) ELSE SubstituteFrom(query, params, 1)

limit == <<"l","i","m","i","t">>

offset == <<"o","f","f","s","e","t">>

\* whether the keyword stands in s at position i in any letter case, with the
\* word boundary \b before it
KeywordAt(s, keyword, i) ==
  /\ i + Len(keyword) - 1 <= Len(s)
  /\ \A k \in 1..Len(keyword) : LowerChar(s[i + k - 1]) = keyword[k]
  /\ (i = 1 \/ ~IsWordChar(s[i - 1]))

\* the first position at or after i of s that does not satisfy the test
\* (Len(s) + 1 when there is none): where a greedy \s+ or \d+ stops
RunEnd(s, i, IsIn(_)) ==
  LET stops == {j \in i..Len(s) : ~IsIn(s[j])}
  IN  IF stops = {} THEN Len(s) + 1 ELSE SetMin(stops)

\* the match of /\b(limit|offset)\s+\[(\d+)\]/i that starts at position i of
\* s: the keyword as written, the digits, and the position after the match
LimitMatchAt(s, i) ==
  LET len    == IF KeywordAt(s, limit, i) THEN Len(limit)
                ELSE IF KeywordAt(s, offset, i) THEN Len(offset) ELSE 0
      open   == RunEnd(s, i + len, IsWhitespace)
      close  == RunEnd(s, open + 1, IsDigit)
  IN  IF /\ len > 0
         /\ open > i + len
         /\ open <= Len(s) /\ s[open] = "["
         /\ close > open + 1
         /\ close <= Len(s) /\ s[close] = "]"
        THEN [found |-> TRUE, keyword |-> SubSeq(s, i, i + len - 1),
              digits |-> SubSeq(s, open + 1, close - 1), next |-> close + 1]
        ELSE [found |-> FALSE]

RECURSIVE RewriteFrom(_, _)
\* the replacement of every match, scanning s from position i
RewriteFrom(s, i) ==
  IF i > Len(s) THEN <<>>
  ELSE LET m == LimitMatchAt(s, i)
       IN  IF m.found THEN m.keyword \o <<" ">> \o m.digits \o RewriteFrom(s, m.next)
           ELSE <<s[i]>> \o RewriteFrom(s, i + 1)

\* finalQuery.replace(/\b(limit|offset)\s+\[(\d+)\]/gi, '$1 $2')
RewriteLimitOffset(s) == RewriteFrom(s, 1)

(***************************************************************************)
(* Calls of the parameter encoding                                         *)
(***************************************************************************)

MaxStringChunks == 3

MaxArrayLen == 2

MaxQueryChunks == 3

MaxParams == 2

LongParamCount == 10

\* The string parameters: every text of letters and single quotes up to the
\* bound, so that a quote stands first, last, alone and next to another.
StringTexts == {Concat(cs) : cs \in ChunkSeqs({<<"a">>, <<"'">>}, MaxStringChunks)}

ParamNumbers == {-3, 0, 7, 25}

IsoText == <<"2","0","2","4","-","0","1","-","0","2","T","0","3",":","0","4",":","0","5",".","0","0","6","Z">>

ScalarValues ==
  {NullValue, BooleanValue(TRUE), BooleanValue(FALSE), BigIntValue(5),
   DateValue(IsoText), InvalidDate}
    \cup {NumberValue(n) : n \in ParamNumbers}
    \cup {StringValue(s) : s \in StringTexts}

\* The elements of the array parameters: one value of each kind, and the
\* arrays [25] and [] for the recursion.
ArrayElements ==
  {NullValue, BooleanValue(TRUE), NumberValue(25), NumberValue(-3), BigIntValue(5),
   StringValue(<<"a", "'">>), InvalidDate,
   ArrayValue(<<NumberValue(25)>>), ArrayValue(<<>>)}

ArrayValues == {ArrayValue(items) : items \in ChunkSeqs(ArrayElements, MaxArrayLen)}

ParamValues == ScalarValues \cup ArrayValues

\* The query texts of substituteParams: the placeholders $1, $2 and $10 and
\* a letter, in every order up to the bound.
QueryChunks == {Placeholder(1), Placeholder(2), Placeholder(10), <<"x">>}

QueryTexts == {Concat(cs) : cs \in ChunkSeqs(QueryChunks, MaxQueryChunks)}

\* The values of the parameter lists: a number, a string with a quote, a
\* string that reads as a placeholder, and the array [25].
ListValues ==
  {NumberValue(7), StringValue(<<"a", "'">>), StringValue(Placeholder(2)),
   ArrayValue(<<NumberValue(25)>>)}

\* a list long enough for a two-digit placeholder: the numbers 101, 102, ...
LongParams == [i \in 1..LongParamCount |-> NumberValue(100 + i)]

ParamLists == ChunkSeqs(ListValues, MaxParams) \cup {LongParams}

CallFormatValue ==
  /\ pc = "idle"
  /\ \E value \in ParamValues :
       /\ call' = [op |-> "formatValue", value |-> value]
       /\ out' = formatValue(value)
  /\ pc' = "done"
  /\ UNCHANGED adapterVars

CallSubstituteParams ==
  /\ pc = "idle"
  /\ \E query \in QueryTexts, params \in ParamLists :
       /\ call' = [op |-> "substituteParams", query |-> query, params |-> params]
       /\ out' = substituteParams(query, params)
  /\ pc' = "done"
  /\ UNCHANGED adapterVars

NextParams ==
  \/ CallFormatValue
  \/ CallSubstituteParams

SpecParams == Init /\ [][NextParams]_vars

(***************************************************************************)
(* The remote query driver: HttpDuckDBConnection (connection.ts),          *)
(* HttpPreparedStatement (prepared.ts), result wrappers (result.ts)        *)
(***************************************************************************)

DEFAULT_TIMEOUT == 30000

\* a field or option that is not given, and one that is
Undefined == [defined |-> FALSE]

Defined(value) == [defined |-> TRUE, value |-> value]

\* options.key, undefined when the caller left the key out
Option(options, key) ==
  IF key \in DOMAIN options THEN Defined(options[key]) ELSE Undefined

\* options.endpoint.replace(/\/$/, '')
StripTrailingSlash(endpoint) ==
  IF Len(endpoint) > 0 /\ endpoint[Len(endpoint)] = "/"
    THEN SubSeq(endpoint, 1, Len(endpoint) - 1)
    ELSE endpoint

\* the constructor of HttpDuckDBConnection
HttpDuckDBConnection(options) ==
  [endpoint    |-> StripTrailingSlash(options.endpoint),
   token       |-> Option(options, "token"),
   timeout     |-> IF "timeout" \in DOMAIN options THEN options.timeout ELSE DEFAULT_TIMEOUT,
   customFetch |-> Option(options, "fetch")]

\* new Error(message)
Error(message) == ErrorObject("Error", message)

\* `HTTP ${response.status}: ${errorBody || response.statusText}`
HttpError(response, errorBody) ==
  Error(<<"H","T","T","P"," ">> \o NumberToString(response.status) \o <<":"," ">>
        \o (IF errorBody # <<>> THEN errorBody ELSE response.statusText))

\* result.error ?? 'Query execution failed'
QueryError(result) ==
  Error(IF "error" \in DOMAIN result THEN result.error ELSE <<"Q","u","e","r","y"," ","e","x","e","c","u","t","i","o","n"," ","f","a","i","l","e","d">>)

\* `Query timeout after ${this.timeout}ms`
TimeoutError(timeout) ==
  Error(<<"Q","u","e","r","y"," ","t","i","m","e","o","u","t"," ","a","f","t","e","r"," ">> \o NumberToString(timeout) \o <<"m","s">>)

BindDestroyedError == Error(<<"C","a","n","n","o","t"," ","b","i","n","d"," ","t","o"," ","d","e","s","t","r","o","y","e","d"," ","p","r","e","p","a","r","e","d"," ","s","t","a","t","e","m","e","n","t">>)

RunDestroyedError == Error(<<"C","a","n","n","o","t"," ","r","u","n"," ","d","e","s","t","r","o","y","e","d"," ","p","r","e","p","a","r","e","d"," ","s","t","a","t","e","m","e","n","t">>)

\* what the transport rejects with when its signal is aborted
AbortError == ErrorObject("AbortError", <<"T","h","i","s"," ","o","p","e","r","a","t","i","o","n"," ","w","a","s"," ","a","b","o","r","t","e","d">>)

\* what the transport rejects with when the network fails
NetworkError == ErrorObject("TypeError", <<"f","e","t","c","h"," ","f","a","i","l","e","d">>)

\* what response.json() rejects with when the body is not JSON
JsonSyntaxError == ErrorObject("SyntaxError", <<"U","n","e","x","p","e","c","t","e","d"," ","t","o","k","e","n">>)

\* the catch clause of fetchQuery without the test of the error's name
CatchClause_AlwaysTimeout(error, timeout) == TimeoutError(timeout)

\* the catch clause of fetchQuery: the error the call rejects with
CatchClause(error, timeout) ==
  IF error.name = "AbortError" THEN TimeoutError(timeout) ELSE error

\* the finally clause left out
ClearTimeout_Never(timer) == timer

\* clearTimeout(timeoutId): a pending timer is cancelled, one that has fired
\* is left as it is
ClearTimeout(timer) == IF timer = "pending" THEN "cleared" ELSE timer

\* JSON values of a response: null, numbers, strings, objects (a function
\* from keys to values)
JsonNull == [type |-> "null"]

JsonNumber(n) == [type |-> "number", value |-> n]

JsonString(s) == [type |-> "string", value |-> s]

JsonObject(fields) == [type |-> "object", fields |-> fields]

\* new Date(millis)
DateOfMillis(millis) == [type |-> "Date", time |-> millis]

RECURSIVE DigitsToNat(_)
\* the natural number a text of decimal digits denotes
DigitsToNat(s) ==
  IF s = <<>> THEN 0
  ELSE 10 * DigitsToNat(SubSeq(s, 1, Len(s) - 1))
       + (CHOOSE d \in 0..9 : DigitChars[d + 1] = s[Len(s)])

\* BigInt(obj.micros) of a number or of a text of digits with an optional sign
ToBigInt(value) ==
  IF value.type = "number" THEN value.value
  ELSE IF Len(value.value) > 0 /\ value.value[1] = "-"
    THEN 0 - DigitsToNat(Tail(value.value))
    ELSE DigitsToNat(value.value)

\* the quotient rounded down, as Math.floor(a / b)
BigIntDivide_Floor(a, b) == a \div b

\* the division of BigInt values: the quotient is truncated towards zero
BigIntDivide(a, b) == IF a >= 0 THEN a \div b ELSE 0 - ((0 - a) \div b)

\* Number(obj.days) of a number or of a text of digits with an optional sign
ToNumber(value) == ToBigInt(value)

\* the key test without Object.keys(obj).length === 1
transformValue_AnyKeys(value) ==
  IF value.type = "object" /\ "micros" \in DOMAIN value.fields
    THEN DateOfMillis(BigIntDivide(ToBigInt(value.fields.micros), 1000))
  ELSE IF value.type = "object" /\ "days" \in DOMAIN value.fields
    THEN DateOfMillis(ToNumber(value.fields.days) * 24 * 60 * 60 * 1000)
  ELSE value

\* transformValue(value): an array has type "array" and null has type
\* "null", so that the test value && typeof value === 'object' &&
\* !Array.isArray(value) is the test for the type "object"
transformValue(value) ==
  IF value.type = "object" /\ DOMAIN value.fields = {"micros"}
    THEN DateOfMillis(BigIntDivide(ToBigInt(value.fields.micros), 1000))
  ELSE IF value.type = "object" /\ DOMAIN value.fields = {"days"}
    THEN DateOfMillis(ToNumber(value.fields.days) * 24 * 60 * 60 * 1000)
  ELSE value

\* row[col] without the default
CellOf_Undefined(row, col) ==
  IF col \in DOMAIN row THEN row[col] ELSE [type |-> "undefined"]

\* row[col] ?? null
CellOf(row, col) == IF col \in DOMAIN row THEN row[col] ELSE JsonNull

\* data.map((row) => columns.map((col) => transformValue(row[col] ?? null)))
RowsOf(columns, data) ==
  [i \in 1..Len(data) |->
     [j \in 1..Len(columns) |-> transformValue(CellOf(data[i], columns[j]))]]

\* new HttpQueryResult(columns, data)
HttpQueryResult(columns, data) ==
  [class |-> "HttpQueryResult", columns |-> columns, rows |-> RowsOf(columns, data)]

\* the rows of the stream result without the value transform
HttpStreamResult_Untransformed(columns, data) ==
  [class |-> "HttpStreamResult", columns |-> columns,
   rows |-> [i \in 1..Len(data) |->
               [j \in 1..Len(columns) |-> CellOf(data[i], columns[j])]]]

\* new HttpStreamResult(columns, data)
HttpStreamResult(columns, data) ==
  [class |-> "HttpStreamResult", columns |-> columns, rows |-> RowsOf(columns, data)]

\* response.columns ?? [] and response.data ?? []
ColumnsOf(result) == IF "columns" \in DOMAIN result THEN result.columns ELSE <<>>

DataOf(result) == IF "data" \in DOMAIN result THEN result.data ELSE <<>>

\* what run() and a prepared statement's run() resolve with (executeQuery),
\* and what stream() resolves with
ResultOf(op, result) ==
  IF op = "stream"
    THEN HttpStreamResult(ColumnsOf(result), DataOf(result))
    ELSE HttpQueryResult(ColumnsOf(result), DataOf(result))

\* A response of the server: its status line, the text of its body, and the
\* value the body decodes to (response.json()), when it is JSON.
Response(status, statusText, text, json) ==
  [status |-> status, statusText |-> statusText, text |-> text, json |-> json]

\* response.ok taken as true for every status
Ok_AnyStatus(response) == TRUE

\* response.ok
Ok(response) == response.status >= 200 /\ response.status <= 299

SuccessEnvelope ==
  Defined([success |-> TRUE, columns |-> <<"v">>, data |-> <<[v |-> JsonNumber(42)]>>,
           rowCount |-> 1])

FailureEnvelope == Defined([success |-> FALSE, error |-> <<"b","o","o","m">>])

\* The responses of the server: a failure status with an empty body, with a
\* body that is a decodable envelope; a success status with a result, with
\* success:false and a message, with success:false alone, with a body that
\* is not JSON.
Responses ==
  { Response(500, <<"I","n","t","e","r","n","a","l"," ","S","e","r","v","e","r"," ","E","r","r","o","r">>, <<>>, Undefined),
    Response(500, <<"I","n","t","e","r","n","a","l"," ","S","e","r","v","e","r"," ","E","r","r","o","r">>, <<"{","\"","s","u","c","c","e","s","s","\"",":","f","a","l","s","e",",","\"","e","r","r","o","r","\"",":","\"","b","o","o","m","\"","}">>,
             FailureEnvelope),
    Response(200, <<"O","K">>, <<"{","\"","s","u","c","c","e","s","s","\"",":","t","r","u","e",",","\"","c","o","l","u","m","n","s","\"",":","[","\"","v","\"","]",",","\"","d","a","t","a","\"",":","[","{","\"","v","\"",":","4","2","}","]",",","\"","r","o","w","C","o","u","n","t","\"",":","1","}">>,
             SuccessEnvelope),
    Response(200, <<"O","K">>, <<"{","\"","s","u","c","c","e","s","s","\"",":","f","a","l","s","e",",","\"","e","r","r","o","r","\"",":","\"","b","o","o","m","\"","}">>, FailureEnvelope),
    Response(200, <<"O","K">>, <<"{","\"","s","u","c","c","e","s","s","\"",":","f","a","l","s","e","}">>, Defined([success |-> FALSE])),
    Response(200, <<"O","K">>, <<"<","h","t","m","l",">">>, Undefined) }

\* The frame of one call of fetchQuery: where the call stands (at), what it
\* was called with, the request it handed to the transport and how often,
\* its timer and its abort signal (and where the call stood when the timer
\* fired), the response it received and whether reading its body came to
\* an end, and what it settled with.
NotCalled ==
  [at |-> "idle", op |-> "none", query |-> <<>>, params |-> <<>>,
   request |-> Undefined, sent |-> 0,
   timer |-> "unset", aborted |-> FALSE, aborts |-> 0, firedAt |-> "never",
   response |-> Undefined, bodyRead |-> FALSE, out |-> NoOutcome]

\* the arguments of fetchFn: the url, the headers and the body
RequestOf(connection, finalQuery) ==
  [url           |-> connection.endpoint \o <<"/","q","u","e","r","y">>,
   method        |-> "POST",
   contentType   |-> "application/json",
   authorization |-> IF connection.token.defined /\ connection.token.value # <<>>
                       THEN Defined(<<"B","e","a","r","e","r"," ">> \o connection.token.value)
                       ELSE Undefined,
   body          |-> [query |-> finalQuery]]

\* fetchQuery up to its first await: the query is substituted and rewritten,
\* the timer is set and the transport is invoked; a parameter that cannot be
\* encoded makes the call reject before either
FetchQuery(connection, op, query, params) ==
  LET substituted == substituteParams(query, params)
      called      == [NotCalled EXCEPT !.op = op, !.query = query, !.params = params]
  IN  IF substituted.kind = "throw"
        THEN [called EXCEPT !.at = "settled", !.out = substituted]
        ELSE [called EXCEPT
                !.at = "fetch",
                !.request = Defined(RequestOf(connection, RewriteLimitOffset(substituted.value))),
                !.sent = 1,
                !.timer = "pending"]

\* the call settles: the finally clause runs
Settle(frame, outcome) ==
  [frame EXCEPT !.at = "settled", !.out = outcome, !.timer = ClearTimeout(frame.timer)]

\* a network failure answered by a second request
Caught_RetryOnce(frame, error, timeout) ==
  IF error.name = "TypeError" /\ frame.sent < 2
    THEN [frame EXCEPT !.at = "fetch", !.sent = frame.sent + 1]
    ELSE Settle(frame, ThrownError(CatchClause(error, timeout)))

\* an error thrown inside the try block: catch, then finally
Caught(frame, error, timeout) ==
  Settle(frame, ThrownError(CatchClause(error, timeout)))

\* the transport resolved with a response: the body is read as text when the
\* status is not a success, as JSON otherwise
AfterResponse(frame, response) ==
  [frame EXCEPT !.response = Defined(response),
                !.at = IF Ok(response) THEN "json" ELSE "text"]

\* response.text() resolved: the status and the body are thrown
AfterText(frame, timeout) ==
  Caught([frame EXCEPT !.bodyRead = TRUE],
         HttpError(frame.response.value, frame.response.value.text), timeout)

\* response.json() settled: a body that is not JSON rejects, an envelope
\* without success throws the server's message, any other is the result
AfterJson(frame, timeout) ==
  LET decoded == frame.response.value.json
      read    == [frame EXCEPT !.bodyRead = TRUE]
  IN  IF ~decoded.defined THEN Caught(read, JsonSyntaxError, timeout)
      ELSE IF ~decoded.value.success THEN Caught(read, QueryError(decoded.value), timeout)
      ELSE Settle(read, Returned(ResultOf(frame.op, decoded.value)))

\* one controller for all the calls of the connection
Abort_SharedController(frames, c) ==
  [d \in DOMAIN frames |->
     IF d = c THEN [frames[d] EXCEPT !.timer = "fired", !.aborted = TRUE, !.aborts = @ + 1,
                                     !.firedAt = frames[d].at]
     ELSE [frames[d] EXCEPT !.aborted = TRUE]]

\* the timer callback of call c: controller.abort()
Abort(frames, c) ==
  [frames EXCEPT ![c].timer = "fired", ![c].aborted = TRUE, ![c].aborts = @ + 1,
                 ![c].firedAt = frames[c].at]

\* The global fetch rejects with an AbortError once its signal is aborted,
\* and only then; an injected transport is any function, and nothing makes
\* it look at the signal.
HonoursSignal(connection) == ~connection.customFetch.defined

\* whether the awaited promise of the transport may still resolve
MayResolve(connection, frame) == ~HonoursSignal(connection) \/ ~frame.aborted

\* the errors the awaited promise of the transport may reject with
Rejections(connection, frame) ==
  IF HonoursSignal(connection)
    THEN IF frame.aborted THEN {AbortError} ELSE {NetworkError}
    ELSE {NetworkError, AbortError}

\* new HttpPreparedStatement(query, executor)
HttpPreparedStatement(query) == [query |-> query, boundValues |-> <<>>, destroyed |-> FALSE]

\* bind() that adds the values to the bound ones
BindValues_Append(statement, values) ==
  [statement EXCEPT !.boundValues = statement.boundValues \o values]

\* this.boundValues = values
BindValues(statement, values) == [statement EXCEPT !.boundValues = values]

\* destroySync() that only clears the values
Destroyed_ValuesOnly(statement) == [statement EXCEPT !.boundValues = <<>>]

\* the statement after destroySync()
Destroyed(statement) == [statement EXCEPT !.destroyed = TRUE, !.boundValues = <<>>]

(***************************************************************************)
(* Calls of the remote query driver                                        *)
(***************************************************************************)

\* the calls that may be in flight together, numbered in the order they
\* are made
CallIds == {1, 2}

\* an injected transport
CustomFetch == [name |-> "options.fetch"]

\* the options that leave every default in place
DefaultOptions == [endpoint |-> <<"h","t","t","p",":","/","/","h">>]

\* The options of the constructor: the defaults and the global fetch; a
\* timeout of 100 ms, a token and an endpoint with a trailing slash, with
\* the global fetch and with an injected transport.
ConnectionOptions ==
  { DefaultOptions,
    [endpoint |-> <<"h","t","t","p",":","/","/","h","/">>, token |-> <<"t">>, timeout |-> 100],
    [endpoint |-> <<"h","t","t","p",":","/","/","h","/">>, token |-> <<"t">>, timeout |-> 100, fetch |-> CustomFetch] }

\* the arguments of run(): no parameters; a parameter that cannot be encoded
RunArgs ==
  { [query |-> <<"S","E","L","E","C","T"," ","1">>],
    [query |-> <<"S","E","L","E","C","T"," ","$","1">>, params |-> <<InvalidDate>>] }

\* the arguments of stream(): the LIMIT value as the array [25]
StreamArgs ==
  { [query |-> <<"S","E","L","E","C","T"," ","1"," ","L","I","M","I","T"," ","$","1">>, params |-> <<ArrayValue(<<NumberValue(25)>>)>>] }

\* params ?? []
ParamsOf(args) == IF "params" \in DOMAIN args THEN args.params ELSE <<>>

\* the query text of prepare()
PreparedQuery == <<"S","E","L","E","C","T"," ","$","1",":",":","I","N","T","E","G","E","R"," ","a","s"," ","v","a","l","u","e">>

\* the value lists of bind()
BindLists == { <<NumberValue(42)>>, <<NumberValue(7), NumberValue(42)>> }

InitConn ==
  /\ pc = "idle"
  /\ call = NoCall
  /\ out = NoOutcome
  /\ \E options \in ConnectionOptions : conn = HttpDuckDBConnection(options)
  /\ calls = [c \in CallIds |-> NotCalled]
  /\ prepared = NoStatement

\* call c may be made: it has not been, and the calls before it have
MayCall(c) ==
  /\ calls[c].at = "idle"
  /\ \A d \in CallIds : d < c => calls[d].at # "idle"

\* connection.run(query, params)
Run(c) ==
  /\ MayCall(c)
  /\ \E args \in RunArgs :
       calls' = [calls EXCEPT ![c] = FetchQuery(conn, "run", args.query, ParamsOf(args))]
  /\ UNCHANGED <<pc, call, out, conn, prepared>>

\* connection.stream(query, params)
Stream(c) ==
  /\ MayCall(c)
  /\ \E args \in StreamArgs :
       calls' = [calls EXCEPT ![c] = FetchQuery(conn, "stream", args.query, ParamsOf(args))]
  /\ UNCHANGED <<pc, call, out, conn, prepared>>

\* connection.prepare(query)
Prepare ==
  /\ prepared = NoStatement
  /\ prepared' = HttpPreparedStatement(PreparedQuery)
  /\ call' = [op |-> "prepare", query |-> PreparedQuery]
  /\ out' = Returned(prepared')
  /\ UNCHANGED <<pc, conn, calls>>

\* statement.bind(...values)
Bind ==
  /\ prepared # NoStatement
  /\ \E values \in BindLists :
       /\ call' = [op |-> "bind", values |-> values]
       /\ IF prepared.destroyed
            THEN /\ out' = ThrownError(BindDestroyedError)
                 /\ UNCHANGED prepared
            ELSE /\ out' = Returned("undefined")
                 /\ prepared' = BindValues(prepared, values)
  /\ UNCHANGED <<pc, conn, calls>>

\* statement.run(): call c of the executor
PreparedRun(c) ==
  /\ prepared # NoStatement
  /\ MayCall(c)
  /\ calls' = [calls EXCEPT ![c] =
                 IF prepared.destroyed
                   THEN [NotCalled EXCEPT !.at = "settled", !.op = "prepared.run",
                                          !.out = ThrownError(RunDestroyedError)]
                   ELSE FetchQuery(conn, "prepared.run", prepared.query, prepared.boundValues)]
  /\ UNCHANGED <<pc, call, out, conn, prepared>>

\* destroySync() that also rejects the runs of the statement in flight
DestroySync_RejectsRuns ==
  /\ prepared # NoStatement
  /\ prepared' = Destroyed(prepared)
  /\ call' = [op |-> "destroySync"]
  /\ out' = Returned("undefined")
  /\ calls' = [c \in CallIds |->
                 IF calls[c].op = "prepared.run" /\ calls[c].at \in {"fetch", "text", "json"}
                   THEN Settle(calls[c], ThrownError(RunDestroyedError))
                   ELSE calls[c]]
  /\ UNCHANGED <<pc, conn>>

\* statement.destroySync()
DestroySync ==
  /\ prepared # NoStatement
  /\ prepared' = Destroyed(prepared)
  /\ call' = [op |-> "destroySync"]
  /\ out' = Returned("undefined")
  /\ UNCHANGED <<pc, conn, calls>>

\* timeout milliseconds have passed since call c set its timer
TimerFires(c) ==
  /\ calls[c].timer = "pending"
  /\ calls' = Abort(calls, c)
  /\ UNCHANGED <<pc, call, out, conn, prepared>>

\* the transport resolves the request of call c with a response
FetchResolves(c) ==
  /\ calls[c].at = "fetch"
  /\ MayResolve(conn, calls[c])
  /\ \E response \in Responses :
       calls' = [calls EXCEPT ![c] = AfterResponse(calls[c], response)]
  /\ UNCHANGED <<pc, call, out, conn, prepared>>

\* the transport rejects the request of call c
FetchRejects(c) ==
  /\ calls[c].at = "fetch"
  /\ \E error \in Rejections(conn, calls[c]) :
       calls' = [calls EXCEPT ![c] = Caught(calls[c], error, conn.timeout)]
  /\ UNCHANGED <<pc, call, out, conn, prepared>>

\* response.text() of call c resolves
TextResolves(c) ==
  /\ calls[c].at = "text"
  /\ MayResolve(conn, calls[c])
  /\ calls' = [calls EXCEPT ![c] = AfterText(calls[c], conn.timeout)]
  /\ UNCHANGED <<pc, call, out, conn, prepared>>

\* response.json() of call c settles on the body it has read
JsonSettles(c) ==
  /\ calls[c].at = "json"
  /\ MayResolve(conn, calls[c])
  /\ calls' = [calls EXCEPT ![c] = AfterJson(calls[c], conn.timeout)]
  /\ UNCHANGED <<pc, call, out, conn, prepared>>

\* the body of the response of call c cannot be read
BodyRejects(c) ==
  /\ calls[c].at \in {"text", "json"}
  /\ \E error \in Rejections(conn, calls[c]) :
       calls' = [calls EXCEPT ![c] = Caught(calls[c], error, conn.timeout)]
  /\ UNCHANGED <<pc, call, out, conn, prepared>>

\* the calls of run() and stream() and what the timers and the transport do
NextConn ==
  \/ \E c \in CallIds : Run(c)
  \/ \E c \in CallIds : Stream(c)
  \/ \E c \in CallIds : TimerFires(c)
  \/ \E c \in CallIds : FetchResolves(c)
  \/ \E c \in CallIds : FetchRejects(c)
  \/ \E c \in CallIds : TextResolves(c)
  \/ \E c \in CallIds : JsonSettles(c)
  \/ \E c \in CallIds : BodyRejects(c)

SpecConn == InitConn /\ [][NextConn]_vars

\* a connection constructed with the defaults
InitPrepared ==
  /\ InitConn
  /\ conn = HttpDuckDBConnection(DefaultOptions)

\* the same with a prepared statement of the connection
NextPrepared ==
  \/ NextConn
  \/ Prepare
  \/ Bind
  \/ \E c \in CallIds : PreparedRun(c)
  \/ DestroySync

SpecPrepared == InitPrepared /\ [][NextPrepared]_vars

(***************************************************************************)
(* Claims about the remote query driver                                    *)
(***************************************************************************)

\* the frames of the calls that have settled
Settled(c) == calls[c].at = "settled"

\* the calls that reached the transport
Sent(c) == calls[c].request.defined

\* C11: when the timer of a call fires while the call still awaits its
\* transport, the timer has aborted exactly once, and the call, once it has
\* settled, has rejected with the timeout error that carries the configured
\* timeout.
C11_Original ==
  \A c \in CallIds :
    calls[c].firedAt = "fetch" =>
      /\ calls[c].aborts = 1
      /\ Settled(c) => calls[c].out = ThrownError(TimeoutError(conn.timeout))

\* C12: on every exit path (a returned result, an error status, a
\* success:false envelope, a body that is not JSON, a network failure, a
\* timeout abort, a failure before the request) a call that has settled has
\* no pending timer, and no abort fires on a call that has settled.
C12_TimerClearedOnEveryExit ==
  /\ [](\A c \in CallIds : Settled(c) => calls[c].timer # "pending")
  /\ [][\A c \in CallIds :
          Settled(c) => /\ calls'[c].aborts = calls[c].aborts
                        /\ calls'[c].aborted = calls[c].aborted
                        /\ calls'[c].timer = calls[c].timer]_vars

\* one call has settled on a network failure with its timer cleared, the
\* other on the timeout abort after its timer fired
C12_Witness ==
  \E c, d \in CallIds :
    /\ Settled(c) /\ Settled(d)
    /\ calls[c].out = ThrownError(NetworkError) /\ calls[c].timer = "cleared"
    /\ calls[d].out = ThrownError(TimeoutError(conn.timeout)) /\ calls[d].timer = "fired"

\* the response the call received
ResponseOf(c) == calls[c].response.value

\* the status of the response is a success status (2xx), is not one
SuccessStatus(c) == ResponseOf(c).status \in 200..299

ErrorStatus(c) == ResponseOf(c).status \notin 200..299

\* C13 as stated: a call that received an error status has always raised
\* the transport error with the status and the body, also when the body is
\* a decodable envelope; a call whose success-status body decoded to a
\* success:false envelope has raised the application error with the
\* server's message; neither has returned a result.
C13_Original ==
  \A c \in CallIds :
    (Settled(c) /\ calls[c].response.defined) =>
      /\ ErrorStatus(c) =>
           calls[c].out = ThrownError(HttpError(ResponseOf(c), ResponseOf(c).text))
      /\ (SuccessStatus(c) /\ calls[c].bodyRead /\ ResponseOf(c).json.defined
            /\ ~ResponseOf(c).json.value.success) =>
           calls[c].out = ThrownError(QueryError(ResponseOf(c).json.value))

\* C13: the same for the calls that read the body of their response to the
\* end; and a call whose response has an error status or a success:false
\* envelope never returns a result, nor do the two errors coincide.
C13_StatusAndEnvelopeErrors ==
  \A c \in CallIds :
    (Settled(c) /\ calls[c].response.defined) =>
      /\ (ErrorStatus(c) /\ calls[c].bodyRead) =>
           /\ calls[c].out = ThrownError(HttpError(ResponseOf(c), ResponseOf(c).text))
           /\ ResponseOf(c).json.defined =>
                calls[c].out # ThrownError(QueryError(ResponseOf(c).json.value))
      /\ (SuccessStatus(c) /\ calls[c].bodyRead /\ ResponseOf(c).json.defined
            /\ ~ResponseOf(c).json.value.success) =>
           /\ calls[c].out = ThrownError(QueryError(ResponseOf(c).json.value))
           /\ calls[c].out # ThrownError(HttpError(ResponseOf(c), ResponseOf(c).text))
      /\ (ErrorStatus(c)
            \/ (ResponseOf(c).json.defined /\ ~ResponseOf(c).json.value.success)) =>
           calls[c].out.kind = "throw"

\* one call has raised the transport error of an error status whose body is
\* a decodable envelope, the other the application error of a success
\* status
C13_Witness ==
  \E c, d \in CallIds :
    /\ Settled(c) /\ calls[c].bodyRead
    /\ ResponseOf(c) \in Responses /\ ErrorStatus(c) /\ ResponseOf(c).json.defined
    /\ calls[c].out = ThrownError(HttpError(ResponseOf(c), ResponseOf(c).text))
    /\ Settled(d) /\ calls[d].bodyRead
    /\ ResponseOf(d) \in Responses /\ SuccessStatus(d)
    /\ calls[d].out = ThrownError(QueryError(FailureEnvelope.value))

\* call c has been made
Called(c) == calls[c].at # "idle"

\* a step of prepare(), bind() or destroySync()
StatementStep == prepared' # prepared \/ call' # call

\* C14 as stated: every call of run(), stream() and of a prepared
\* statement's run() has invoked the transport exactly once, a call that
\* has invoked it never invokes it again, and prepare(), bind() and
\* destroySync() invoke it for no call.
C14_Original ==
  /\ [](\A c \in CallIds : Called(c) => calls[c].sent = 1)
  /\ [][\A c \in CallIds : calls[c].sent = 1 => calls'[c].sent = 1]_vars
  /\ [][StatementStep => \A c \in CallIds : calls'[c].sent = calls[c].sent]_vars

\* the errors of a call that ends before its request: the statement is
\* destroyed, a parameter cannot be encoded
RejectedBeforeSending(c) ==
  /\ Settled(c)
  /\ ~calls[c].request.defined
  /\ calls[c].out \in {ThrownError(RunDestroyedError), ThrownError(InvalidTimeValue)}

\* C14: every call has invoked the transport exactly once, or not at all
\* and then it has rejected before its request; a call that has invoked the
\* transport never invokes it again, whatever it settles with, and a call
\* that has settled stays as it is; prepare(), bind() and destroySync()
\* invoke the transport for no call.
C14_SentOnceOrRejectedBefore ==
  /\ [](\A c \in CallIds :
          Called(c) => \/ calls[c].sent = 1 /\ calls[c].request.defined
                       \/ calls[c].sent = 0 /\ RejectedBeforeSending(c))
  /\ [][\A c \in CallIds :
          /\ calls[c].sent = 1 => calls'[c].sent = 1
          /\ Settled(c) => calls'[c] = calls[c]]_vars
  /\ [][StatementStep => calls' = calls]_vars

\* a call has rejected with the network failure of its one request, next to
\* a run of the prepared statement after a bind(), with one request too
C14_Witness ==
  \E c, d \in CallIds :
    /\ Settled(c) /\ calls[c].out = ThrownError(NetworkError) /\ calls[c].sent = 1
    /\ calls[d].op = "prepared.run" /\ calls[d].sent = 1
    /\ call.op = "bind"

\* C15: every step changes the frame of at most one call and leaves the
\* fields of the connection as they are; the signal of a call is aborted
\* only by its own timer; and a call returns a result only from its own
\* response, rejects with the timeout error only after its own signal was
\* aborted or its own transport rejected.
C15_CallsIndependent ==
  /\ [][/\ conn' = conn
        /\ \A c, d \in CallIds :
             (c # d /\ calls'[c] # calls[c]) => calls'[d] = calls[d]]_vars
  /\ [](\A c \in CallIds :
          /\ calls[c].aborted <=> calls[c].timer = "fired"
          /\ (Settled(c) /\ calls[c].out.kind = "return") =>
               /\ calls[c].response.defined
               /\ ResponseOf(c).json.defined
               /\ calls[c].out.value.rows = RowsOf(ColumnsOf(ResponseOf(c).json.value),
                                                   DataOf(ResponseOf(c).json.value))
          /\ (Settled(c) /\ HonoursSignal(conn)
                /\ calls[c].out = ThrownError(TimeoutError(conn.timeout))) =>
               calls[c].timer = "fired")

\* both calls await the transport; the timer of the first has fired, the
\* second has its timer pending and its signal not aborted
C15_Witness ==
  /\ calls[1].at = "fetch" /\ calls[1].timer = "fired" /\ calls[1].aborted
  /\ calls[2].at = "fetch" /\ calls[2].timer = "pending" /\ ~calls[2].aborted

\* destroySync() has been called on the prepared statement
IsDestroyed == prepared # NoStatement /\ prepared.destroyed

\* a step in which call c is made as the run() of the prepared statement
RunsStatement(c) == calls[c].at = "idle" /\ calls'[c].op = "prepared.run"

\* C16: destroySync() leaves the statement destroyed; once the statement is
\* destroyed, it stays destroyed with no bound values whatever is called on
\* it; every bind() throws 'Cannot bind to
\* destroyed prepared statement' and leaves it as it is; every run()
\* rejects with 'Cannot run destroyed prepared statement' without a request
\* and without a timer.
C16_DestroyedIsFinal ==
  /\ [](call.op = "destroySync" => IsDestroyed)
  /\ [][IsDestroyed => prepared' = prepared]_vars
  /\ [](IsDestroyed => prepared.boundValues = <<>>)
  /\ [][(IsDestroyed /\ call' # call /\ call'.op = "bind") =>
          out' = ThrownError(BindDestroyedError)]_vars
  /\ [](IsDestroyed /\ call.op = "bind" => out = ThrownError(BindDestroyedError))
  /\ [][\A c \in CallIds :
          (IsDestroyed /\ RunsStatement(c)) =>
            /\ calls'[c].at = "settled"
            /\ calls'[c].out = ThrownError(RunDestroyedError)
            /\ calls'[c].sent = 0 /\ ~calls'[c].request.defined
            /\ calls'[c].timer = "unset"]_vars

\* after destroySync() a bind() has thrown, and a run() has rejected
\* without a request
C16_Witness ==
  /\ IsDestroyed
  /\ call.op = "bind" /\ out = ThrownError(BindDestroyedError)
  /\ \E c \in CallIds :
       /\ calls[c].op = "prepared.run"
       /\ calls[c].out = ThrownError(RunDestroyedError)
       /\ calls[c].sent = 0

\* the values of the most recent bind(), none when bind() was never called:
\* bind() is the last operation on a statement that is not destroyed,
\* unless it is prepare()
MostRecentlyBound == IF call.op = "bind" THEN call.values ELSE <<>>

\* the text of the prepared query with the value list substituted by hand
Substituted(values) ==
  IF values = <<>> THEN PreparedQuery
  ELSE <<"S","E","L","E","C","T"," ">> \o NumberToString(values[1].value)
       \o <<":",":","I","N","T","E","G","E","R"," ","a","s"," ","v","a","l","u","e">>

\* C17: a run() of a statement that is not destroyed is made with the
\* stored query text and with exactly the values of the most recent bind(),
\* none when there was no bind(); its one request carries that text with
\* those values substituted; and bind() leaves the statement with exactly
\* its own values.
C17_RunsMostRecentlyBound ==
  /\ [][\A c \in CallIds :
          (RunsStatement(c) /\ ~IsDestroyed) =>
            /\ calls'[c].query = PreparedQuery
            /\ calls'[c].params = MostRecentlyBound
            /\ calls'[c].sent = 1
            /\ calls'[c].request.value.body.query = Substituted(MostRecentlyBound)]_vars
  /\ []((prepared # NoStatement /\ ~prepared.destroyed) =>
          prepared.boundValues = MostRecentlyBound)

\* the statement has been bound twice and run twice: the first run with the
\* values of the first bind(), the second with those of the second
C17_Witness ==
  /\ calls[1].op = "prepared.run" /\ calls[1].params = <<NumberValue(42)>>
  /\ calls[1].request.value.body.query
       = <<"S","E","L","E","C","T"," ","4","2",":",":","I","N","T","E","G","E","R"," ","a","s"," ","v","a","l","u","e">>
  /\ calls[2].op = "prepared.run" /\ calls[2].params = <<NumberValue(7), NumberValue(42)>>
  /\ calls[2].request.value.body.query = Substituted(<<NumberValue(7)>>)
  /\ prepared.boundValues = <<NumberValue(7), NumberValue(42)>>

(***************************************************************************)
(* Claims about the parameter encoding                                     *)
(***************************************************************************)

FormatValueDone == pc = "done" /\ call.op = "formatValue"

SubstituteParamsDone == pc = "done" /\ call.op = "substituteParams"

\* the encoded literal of a parameter that can be encoded
LiteralOf(value) == formatValue(value).value

\* every parameter of the list can be encoded, and no literal holds a "$"
PlainParams(params) ==
  \A i \in 1..Len(params) :
    /\ formatValue(params[i]).kind = "return"
    /\ \A k \in 1..Len(LiteralOf(params[i])) : LiteralOf(params[i])[k] # "$"

\* the end of the placeholder that starts at position i of the query: the
\* position after the digits that follow the "$"
PlaceholderEnd(query, i) == RunEnd(query, i + 1, IsDigit)

\* the number of the placeholder that starts at position i, 0 when the "$"
\* is followed by no digit
PlaceholderNumber(query, i) ==
  IF query[i] = "$" /\ PlaceholderEnd(query, i) > i + 1
    THEN DigitsToNat(SubSeq(query, i + 1, PlaceholderEnd(query, i) - 1))
    ELSE 0

\* every placeholder of the query has a parameter in a list of length n
PlaceholdersWithin(query, n) ==
  \A i \in 1..Len(query) : query[i] = "$" => PlaceholderNumber(query, i) \in 1..n

RECURSIVE ReplacedFrom(_, _, _)
\* the query from position i on, with every placeholder $k, 1 <= k <= n,
\* replaced by the literal of the k-th parameter
ReplacedFrom(query, params, i) ==
  IF i > Len(query) THEN <<>>
  ELSE IF PlaceholderNumber(query, i) \in 1..Len(params)
    THEN LiteralOf(params[PlaceholderNumber(query, i)])
         \o ReplacedFrom(query, params, PlaceholderEnd(query, i))
    ELSE <<query[i]>> \o ReplacedFrom(query, params, i + 1)

\* C18 as stated, for the queries whose placeholders all have a parameter
\* and the parameters whose literals hold no "$": substituteParams returns
\* the query with every placeholder $i replaced by the literal of the i-th
\* parameter, for a list of any length.
C18_Original ==
  (/\ SubstituteParamsDone
   /\ PlainParams(call.params)
   /\ PlaceholdersWithin(call.query, Len(call.params))) =>
    out = Returned(ReplacedFrom(call.query, call.params, 1))

\* the same for the lists of fewer than ten parameters
C18_UpToNine ==
  (/\ SubstituteParamsDone
   /\ Len(call.params) < 10
   /\ PlainParams(call.params)
   /\ PlaceholdersWithin(call.query, Len(call.params))) =>
    out = Returned(ReplacedFrom(call.query, call.params, 1))

\* whether the text is the decimal text of the integer n: an optional minus
\* sign, then digits without a leading zero that denote the magnitude
IsDecimalTextOf(text, n) ==
  LET digits == IF n < 0 THEN Tail(text) ELSE text
  IN  /\ Len(text) > 0
      /\ n < 0 => text[1] = "-"
      /\ Len(digits) > 0
      /\ \A i \in 1..Len(digits) : IsDigit(digits[i])
      /\ Len(digits) > 1 => digits[1] # "0"
      /\ DigitsToNat(digits) = (IF n < 0 THEN 0 - n ELSE n)

\* the literals of the elements of an array, when all of them can be encoded
AllEncoded(items) == \A i \in 1..Len(items) : formatValue(items[i]).kind = "return"

\* C19: formatValue follows the table: null gives NULL, true and false give
\* TRUE and FALSE, a number gives its decimal text, an array whose one
\* element is a number gives the decimal text of that number with no
\* brackets, and every other array whose elements can be encoded gives "[",
\* the literals of its elements joined by ", ", and "]".
C19_EncodingTable ==
  FormatValueDone =>
    LET value == call.value
    IN  /\ value.type = "null" => out = Returned(<<"N","U","L","L">>)
        /\ value.type = "boolean" =>
             out = Returned(IF value.value THEN <<"T","R","U","E">>
                            ELSE <<"F","A","L","S","E">>)
        /\ value.type = "number" =>
             out.kind = "return" /\ IsDecimalTextOf(out.value, value.value)
        /\ (value.type = "array" /\ Len(value.items) = 1
              /\ value.items[1].type = "number") =>
             out.kind = "return" /\ IsDecimalTextOf(out.value, value.items[1].value)
        /\ (value.type = "array" /\ AllEncoded(value.items)
              /\ ~(Len(value.items) = 1 /\ value.items[1].type = "number")) =>
             out = Returned(<<"[">>
                            \o Join([i \in 1..Len(value.items) |-> LiteralOf(value.items[i])],
                                    <<",", " ">>)
                            \o <<"]">>)

\* the array [25] has been encoded as 25
C19_Witness ==
  /\ FormatValueDone
  /\ call.value = ArrayValue(<<NumberValue(25)>>)
  /\ out = Returned(<<"2","5">>)

RECURSIVE Undoubled(_)
\* the text with every pair of single quotes read as one
Undoubled(text) ==
  IF text = <<>> THEN <<>>
  ELSE IF Len(text) >= 2 /\ text[1] = "'" /\ text[2] = "'"
    THEN <<"'">> \o Undoubled(SubSeq(text, 3, Len(text)))
    ELSE <<text[1]>> \o Undoubled(Tail(text))

RECURSIVE QuotesPaired(_)
\* read from the left, every single quote of the text is followed by a
\* second one: no quote stands alone
QuotesPaired(text) ==
  IF text = <<>> THEN TRUE
  ELSE IF text[1] = "'"
    THEN Len(text) >= 2 /\ text[2] = "'" /\ QuotesPaired(SubSeq(text, 3, Len(text)))
    ELSE QuotesPaired(Tail(text))

\* C20: the literal of a string s starts and ends with a single quote; the
\* content between them has no quote that stands alone, and reading its
\* doubled quotes as one gives back s.
C20_QuotedAndDoubled ==
  (FormatValueDone /\ call.value.type = "string") =>
    /\ out.kind = "return"
    /\ Len(out.value) >= 2
    /\ out.value[1] = "'" /\ out.value[Len(out.value)] = "'"
    /\ LET content == SubSeq(out.value, 2, Len(out.value) - 1)
       IN  /\ QuotesPaired(content)
           /\ Undoubled(content) = call.value.value

\* the string 'a' (with its quotes) has been encoded as '''a'''
C20_Witness ==
  /\ FormatValueDone
  /\ call.value = StringValue(<<"'", "a", "'">>)
  /\ out = Returned(<<"'", "'", "'", "a", "'", "'", "'">>)

(***************************************************************************)
(* Calls of the result wrappers (result.ts)                                *)
(***************************************************************************)

\* a JSON array
JsonArray(items) == [type |-> "array", items |-> items]

\* {"micros": payload} and {"days": payload}
MicrosCell(payload) == JsonObject([micros |-> payload])

DaysCell(payload) == JsonObject([days |-> payload])

\* The integers a micros cell carries in the calls below, as a number or as
\* its decimal text, and the integers a days cell carries.
MicrosValues == {-1700000000, -2500, -1500, -1000, -999, -1, 0, 1, 999, 1000, 1500, 1700000000}

DaysValues == {-24, -1, 0, 1, 2, 24}

TimePayloads(values) ==
  {JsonNumber(n) : n \in values} \cup {JsonString(NumberToString(n)) : n \in values}

\* The cells transformValue is called with: the two single-key shapes, and
\* cells of every other shape (null, scalars, arrays, objects with no key,
\* with another key, with micros or days next to another key, and the
\* single-key shapes inside an array or an object).
ConvertedCells ==
  {MicrosCell(p) : p \in TimePayloads(MicrosValues)}
    \cup {DaysCell(p) : p \in TimePayloads(DaysValues)}

OtherCells ==
  { JsonNull, JsonNumber(0), JsonNumber(1500), JsonString(<<>>),
    JsonString(<<"m","i","c","r","o","s">>),
    JsonArray(<<>>), JsonArray(<<JsonNumber(1500)>>),
    JsonArray(<<MicrosCell(JsonNumber(1500))>>),
    JsonArray(<<DaysCell(JsonNumber(2))>>),
    JsonObject([k \in {} |-> JsonNull]),
    JsonObject([value |-> JsonNumber(1500)]),
    JsonObject([micros |-> JsonNumber(1500), days |-> JsonNumber(2)]),
    JsonObject([micros |-> JsonNumber(1500), months |-> JsonNumber(0)]),
    JsonObject([days |-> JsonNumber(2), months |-> JsonNumber(0)]),
    JsonObject([micros |-> JsonString(<<"1","5","0","0">>), zone |-> JsonString(<<"U","T","C">>)]),
    JsonObject([value |-> MicrosCell(JsonNumber(1500))]),
    JsonObject([value |-> DaysCell(JsonNumber(2))]) }

CellValues == ConvertedCells \cup OtherCells

CallTransformValue ==
  /\ pc = "idle"
  /\ \E value \in CellValues :
       /\ call' = [op |-> "transformValue", value |-> value]
       /\ out' = Returned(transformValue(value))
  /\ pc' = "done"
  /\ UNCHANGED adapterVars

RECURSIVE DeduplicateFrom(_, _, _)
\* columns.map(...) from index i on, with the map `seen` of the names met so
\* far and how often each was met
DeduplicateFrom(columns, i, seen) ==
  IF i > Len(columns) THEN <<>>
  ELSE LET name == columns[i]
           count == IF name \in DOMAIN seen THEN seen[name] ELSE 0
           next == [n \in DOMAIN seen \cup {name} |->
                      IF n = name THEN count + 1 ELSE seen[n]]
       IN  <<IF count = 0 THEN name ELSE name \o <<"_">> \o NatToString(count)>>
             \o DeduplicateFrom(columns, i + 1, next)

deduplicatedColumnNames(columns) ==
  DeduplicateFrom(columns, 1, [n \in {} |-> 0])

columnNames(result) == result.columns

getRowsJS(result) == result.rows

\* The column lists deduplicatedColumnNames is called with: lists of up to
\* MaxNames names out of x, x_1, x_2 and y.
MaxNames == 3

ColumnNames == {<<"x">>, <<"x","_","1">>, <<"x","_","2">>, <<"y">>}

NameLists == UNION {[1..n -> ColumnNames] : n \in 0..MaxNames}

CallDeduplicatedColumnNames ==
  /\ pc = "idle"
  /\ \E columns \in NameLists :
       /\ call' = [op |-> "deduplicatedColumnNames", columns |-> columns]
       /\ out' = Returned(deduplicatedColumnNames(columns))
  /\ pc' = "done"
  /\ UNCHANGED adapterVars

\* The successful responses a result is built from: up to MaxColumns
\* columns out of a and b (a name may repeat) or no columns list, and up to
\* MaxRows data objects or no data list.  A data object may lack a column,
\* carry a field that is no column, and hold cells of the single-key shapes.
MaxColumns == 2

MaxRows == 2

ColumnLists == UNION {[1..n -> {"a", "b"}] : n \in 0..MaxColumns}

RowObjects ==
  { [k \in {} |-> JsonNull],
    [a |-> JsonNumber(7)],
    [a |-> MicrosCell(JsonNumber(-1500)), b |-> DaysCell(JsonString(<<"2">>))],
    [b |-> JsonNull, c |-> JsonNumber(1)],
    [a |-> JsonObject([micros |-> JsonNumber(1500), months |-> JsonNumber(0)]),
     b |-> JsonString(<<"t">>)] }

DataLists == UNION {[1..n -> RowObjects] : n \in 0..MaxRows}

SuccessResponses ==
  {[success |-> TRUE, columns |-> columns, data |-> data] :
     columns \in ColumnLists, data \in DataLists}
    \cup {[success |-> TRUE, data |-> data] : data \in DataLists}
    \cup {[success |-> TRUE, columns |-> columns] : columns \in ColumnLists}

\* run(): the rows of the result executeQuery builds from the response
CallGetRowsJS ==
  /\ pc = "idle"
  /\ \E response \in SuccessResponses :
       /\ call' = [op |-> "getRowsJS", response |-> response,
                   result |-> ResultOf("run", response)]
       /\ out' = Returned(getRowsJS(call'.result))
  /\ pc' = "done"
  /\ UNCHANGED adapterVars

\* the rows an iteration has yielded so far
Yielded(rows) == [kind |-> "yield", rows |-> rows]

\* stream(), then for await (const row of result): the result is built from
\* the response, and the iteration starts at its first row.  `pass` counts
\* the iterations of this result and `first` keeps what the first one
\* yielded.
CallIterate ==
  /\ pc = "idle"
  /\ \E response \in SuccessResponses :
       call' = [op |-> "iterate", response |-> response,
                result |-> ResultOf("stream", response), pass |-> 1, first |-> <<>>]
  /\ out' = Yielded(<<>>)
  /\ pc' = "iterating"
  /\ UNCHANGED adapterVars

\* one step of [Symbol.asyncIterator](): the next row of this.rows is
\* yielded, or the loop is over and the iteration is done
IteratorNext ==
  /\ pc = "iterating"
  /\ LET n == Len(out.rows)
     IN  IF n < Len(call.result.rows)
           THEN /\ out' = Yielded(Append(out.rows, call.result.rows[n + 1]))
                /\ pc' = "iterating"
           ELSE /\ out' = Returned(out.rows)
                /\ pc' = "done"
  /\ UNCHANGED <<call, adapterVars>>

\* a second for await over the same result
IterateAgain ==
  /\ pc = "done"
  /\ call.op = "iterate"
  /\ call.pass = 1
  /\ call' = [call EXCEPT !.pass = 2, !.first = out.value]
  /\ out' = Yielded(<<>>)
  /\ pc' = "iterating"
  /\ UNCHANGED adapterVars

NextResult ==
  \/ CallTransformValue
  \/ CallDeduplicatedColumnNames
  \/ CallGetRowsJS
  \/ CallIterate
  \/ IteratorNext
  \/ IterateAgain

SpecResult == Init /\ [][NextResult]_vars


(***************************************************************************)
(* Claims about the result wrappers                                        *)
(***************************************************************************)

TransformValueDone == pc = "done" /\ call.op = "transformValue"

\* the integer a payload carries: the number itself, or the integer whose
\* decimal text the payload is
IsIntegerOf(payload, n) ==
  \/ payload.type = "number" /\ payload.value = n
  \/ payload.type = "string" /\ payload.value = NumberToString(n)

\* q is m divided by 1000 with the fraction dropped: q * 1000 lies between
\* 0 and m, less than 1000 away from m
TruncatedThousandth(m, q) ==
  IF m >= 0
    THEN q * 1000 <= m /\ m < (q + 1) * 1000
    ELSE m <= q * 1000 /\ (q - 1) * 1000 < m

\* C21: a cell whose only key is micros, with the integer m, decodes to the
\* point in time m / 1000 milliseconds after the epoch, the quotient
\* truncated towards zero (also for negative m); a cell whose only key is
\* days, with the integer d, decodes to d * 86400000 milliseconds.
C21_MicrosAndDaysDecode ==
  TransformValueDone =>
    /\ \A m \in MicrosValues :
         (call.value.type = "object"
            /\ DOMAIN call.value.fields = {"micros"}
            /\ IsIntegerOf(call.value.fields.micros, m))
           => /\ out.kind = "return"
              /\ out.value.type = "Date"
              /\ TruncatedThousandth(m, out.value.time)
    /\ \A d \in DaysValues :
         (call.value.type = "object"
            /\ DOMAIN call.value.fields = {"days"}
            /\ IsIntegerOf(call.value.fields.days, d))
           => out = Returned([type |-> "Date", time |-> d * 86400000])

\* {"micros": "-1500"} has been decoded to the point in time -1 (not -2),
\* which is what the quotient truncated towards zero gives
C21_Witness ==
  /\ TransformValueDone
  /\ call.value = MicrosCell(JsonString(<<"-", "1", "5", "0", "0">>))
  /\ out = Returned([type |-> "Date", time |-> -1])

\* the shape that is converted: an object (no array) with exactly one key,
\* which is micros or days
IsTimeShape(value) ==
  /\ value.type = "object"
  /\ Cardinality(DOMAIN value.fields) = 1
  /\ \E key \in {"micros", "days"} : key \in DOMAIN value.fields

\* C22: the transform converts a cell only when it is a non-array object
\* with exactly one key that is micros or days; every other cell (null,
\* scalars, arrays, objects with micros or days next to another key, the
\* single-key shapes nested in an array or an object) is returned unchanged.
C22_StrictSingleKeyMatch ==
  TransformValueDone =>
    /\ out.kind = "return"
    /\ out.value # call.value => IsTimeShape(call.value)
    /\ ~IsTimeShape(call.value) => out.value = call.value

\* {"micros": 1500, "months": 0} has been returned as it is
C22_Witness ==
  /\ TransformValueDone
  /\ call.value = JsonObject([micros |-> JsonNumber(1500), months |-> JsonNumber(0)])
  /\ out = Returned(call.value)


DeduplicatedDone == pc = "done" /\ call.op = "deduplicatedColumnNames"

\* C23: for every column list, deduplicatedColumnNames returns a list of
\* the same length whose names are pairwise distinct, also for a list that
\* holds a name of the form x_1 next to a repeated x.
C23_Original ==
  DeduplicatedDone =>
    /\ out.kind = "return"
    /\ Len(out.value) = Len(call.columns)
    /\ \A i, j \in 1..Len(out.value) : i # j => out.value[i] # out.value[j]


Iterating == call.op = "iterate"

IterationDone == pc = "done" /\ call.op = "iterate"

\* what getRowsJS() of the run result of the same response returns
RunRowsOf(response) ==
  getRowsJS(HttpQueryResult(ColumnsOf(response), DataOf(response)))

IsPrefixOf(rows, all) ==
  Len(rows) <= Len(all) /\ \A i \in 1..Len(rows) : rows[i] = all[i]

\* C24: for the same response, iterating the stream result yields exactly
\* the rows getRowsJS() of the run result returns, transformed alike and in
\* the same order; each step yields one row, out of a buffer that holds all
\* rows of the response before the first step; a second iteration of the
\* same result yields the same sequence.
C24_StreamYieldsRunRows ==
  /\ [](Iterating =>
          /\ Len(call.result.rows) = Len(DataOf(call.response))
          /\ pc = "iterating" => IsPrefixOf(out.rows, RunRowsOf(call.response))
          /\ pc = "done" =>
               /\ out = Returned(RunRowsOf(call.response))
               /\ call.pass = 2 => out.value = call.first)
  /\ [][(pc = "iterating" /\ pc' = "iterating") =>
          Len(out'.rows) = Len(out.rows) + 1]_vars

\* the stream result of a response with two rows, the second one holding
\* cells of both single-key shapes, has been iterated twice, row by row
C24_Witness ==
  /\ IterationDone
  /\ call.pass = 2
  /\ DOMAIN call.response = {"success", "columns", "data"}
  /\ call.response.data = <<[a |-> JsonNumber(7)],
                            [a |-> MicrosCell(JsonNumber(-1500)),
                             b |-> DaysCell(JsonString(<<"2">>))]>>
  /\ call.response.columns = <<"a", "b">>
  /\ out = Returned(<<<<JsonNumber(7), JsonNull>>,
                      <<DateOfMillis(-1), DateOfMillis(172800000)>>>>)

HasResult == pc = "done" /\ call.op \in {"getRowsJS", "iterate"}

MaxScanChunks == 3

\* The pieces of the texts with several function calls: calls of three
\* deny-listed functions (load stands after read_csv and read_csv_auto in
\* the deny list), a blank, the statement delimiter.
ScanChunks ==
  { <<"l","o","a","d","(">>, <<"r","e","a","d","_","c","s","v","(">>, <<"R","e","a","d","_","C","S","V","_","A","u","t","o"," ","(">>, <<" ">>, <<";">> }

ScanTexts == {Concat(cs) : cs \in ChunkSeqs(ScanChunks, MaxScanChunks)}

\* validateSql called with a text of function calls
CallValidateSqlOfCalls ==
  /\ pc = "idle"
  /\ \E sql \in ScanTexts, config \in SqlGuardConfigs :
       \E identified \in IdentifyCall(sql, config) :
         /\ call' = [op |-> "validateSql", sql |-> sql, config |-> config,
                     identified |-> identified]
         /\ out' = validateSql(sql, config, identified)
  /\ pc' = "done"
  /\ UNCHANGED adapterVars

NextScan == CallValidateSqlOfCalls

SpecScan == Init /\ [][NextScan]_vars

\* a result of a fail-fast check: one error, no statementType
FailFast(error) == Returned([valid |-> FALSE, errors |-> <<error>>])

\* the deny-listed names that occur as a call in the text (in any letter
\* case, at a word boundary, blanks allowed before the parenthesis), in the
\* order of the deny list
MatchedFunctions(sql) ==
  LET IsCalled(func) == DangerousPatternTest(func, ToLowerCase(sql))
  IN  SelectSeq(DANGEROUS_FUNCTIONS, IsCalled)

\* C26: validateSql tries the checks empty, too long, classifier failure,
\* multiple statements, zero statements in this order, and the first that
\* fails returns a result with that one error and no statementType; for a
\* single classified statement the errors are the type error, then the
\* write-operation error, then one error per matched deny-listed function
\* in deny-list order, and statementType is set.
C26_ErrorsInCheckOrder ==
  ValidateSqlDone =>
    LET cfg == EffectiveConfig
        isBlank == \A i \in 1..Len(call.sql) : IsWhitespace(call.sql[i])
    IN  IF isBlank
          THEN out = FailFast(EmptyQueryError)
        ELSE IF Len(call.sql) > cfg.maxQueryLength
          THEN out = FailFast(TooLongError(cfg.maxQueryLength))
        ELSE IF call.identified.kind = "throw"
          THEN out = FailFast(ParseError(call.identified.message))
        ELSE IF Len(call.identified.value) > 1
          THEN out = FailFast(MultipleStatementsError)
        ELSE IF Len(call.identified.value) = 0
          THEN out = FailFast(UnidentifiedError)
        ELSE
          LET stmt == call.identified.value[1]
              matched == MatchedFunctions(call.sql)
              typeError ==
                IF cfg.selectOnly /\ stmt.type # SELECT /\ ~StartsWith(stmt.type, SHOW_)
                  THEN <<TypeNotAllowedError(stmt.type)>> ELSE <<>>
              writeError ==
                IF stmt.executionType = "MODIFICATION"
                  THEN <<WriteOperationError(stmt.type)>> ELSE <<>>
              functionErrors ==
                IF cfg.blockDangerousFunctions
                  THEN [i \in 1..Len(matched) |-> FunctionNotAllowedError(matched[i])]
                  ELSE <<>>
          IN  /\ out.kind = "return"
              /\ out.value.errors = typeError \o writeError \o functionErrors
              /\ out.value.statementType = stmt.type

\* load(Read_CSV_Auto (read_csv( classified as one INSERT statement has got
\* four or more errors: type, write operation, then read_csv, read_csv_auto
\* and load in the order of the deny list
C26_Witness ==
  /\ ValidateSqlDone
  /\ call.sql = <<"l","o","a","d","(","R","e","a","d","_","C","S","V","_","A","u","t","o"," ","(","r","e","a","d","_","c","s","v","(">>
  /\ out.kind = "return"
  /\ out.value.errors =
       << TypeNotAllowedError(<<"I","N","S","E","R","T">>), WriteOperationError(<<"I","N","S","E","R","T">>),
          FunctionNotAllowedError(<<"r","e","a","d","_","c","s","v">>),
          FunctionNotAllowedError(<<"r","e","a","d","_","c","s","v","_","a","u","t","o">>),
          FunctionNotAllowedError(<<"l","o","a","d">>) >>


\* every parameter of the list has a literal
Encodable(params) ==
  \A i \in 1..Len(params) : formatValue(params[i]).kind = "return"

\* C27: substituting one parameter never alters the literal inserted for
\* another: the text substituteParams returns is the query with all its
\* placeholders replaced at once by the literals of their parameters, also
\* when the text of a parameter holds a placeholder such as $2.  Stated for
\* the lists of fewer than ten parameters and the queries whose
\* placeholders all have a parameter.
C27_Original ==
  (/\ SubstituteParamsDone
   /\ Len(call.params) < 10
   /\ Encodable(call.params)
   /\ PlaceholdersWithin(call.query, Len(call.params))) =>
    out = Returned(ReplacedFrom(call.query, call.params, 1))


(***************************************************************************)
(* Further claims about the remote query driver                            *)
(***************************************************************************)

\* C28: a call of run() or stream() raises the timeout error only if its
\* own timer has expired and aborted it; a failure the transport reports
\* while the timer is pending is raised as it is, not as a timeout.
C28_Original ==
  \A c \in CallIds :
    (Settled(c) /\ calls[c].out = ThrownError(TimeoutError(conn.timeout)))
      => calls[c].firedAt # "never" /\ calls[c].aborts = 1


InFlight(c) == calls[c].at \in {"fetch", "text", "json"}

\* C29: a run() of the prepared statement that has started is unaffected by
\* a later bind() or destroySync(): its request carries the values bound at
\* the moment of the call and never changes, a step of bind() or
\* destroySync() changes no call, and a run in flight is still settled by
\* its transport (never by the destroyed statement) after destroySync().
C29_StartedRunUnaffected ==
  /\ [][\A c \in CallIds :
          (RunsStatement(c) /\ ~IsDestroyed) =>
            /\ calls'[c].params = prepared.boundValues
            /\ calls'[c].request.value.body.query
                 = Substituted(prepared.boundValues)]_vars
  /\ [][\A c \in CallIds :
          calls[c].request.defined =>
            /\ calls'[c].request = calls[c].request
            /\ calls'[c].params = calls[c].params]_vars
  /\ [][StatementStep => calls' = calls]_vars
  /\ [](\A c \in CallIds :
          (calls[c].op = "prepared.run" /\ calls[c].sent = 1) =>
            /\ calls[c].out # ThrownError(RunDestroyedError)
            /\ (/\ Settled(c) /\ calls[c].bodyRead
                /\ calls[c].response.value.status = 200
                /\ calls[c].response.value.json = SuccessEnvelope)
                 => calls[c].out = Returned(ResultOf("run", SuccessEnvelope.value))
            /\ InFlight(c) =>
                 ENABLED (FetchResolves(c) \/ FetchRejects(c) \/ TextResolves(c)
                            \/ JsonSettles(c) \/ BodyRejects(c)))

\* the statement was run with 42 bound, then bound to 7 and run again, then
\* destroyed: both runs are in flight, each with the request of its own
\* values
C29_Witness ==
  /\ IsDestroyed
  /\ call.op = "destroySync"
  /\ calls[1].op = "prepared.run" /\ InFlight(1)
  /\ calls[1].request.value.body.query = Substituted(<<NumberValue(42)>>)
  /\ calls[2].op = "prepared.run" /\ InFlight(2)
  /\ calls[2].request.value.body.query = Substituted(<<NumberValue(7)>>)


(***************************************************************************)
(* The text fetchQuery sends: substitution, then the limit/offset rewrite  *)
(***************************************************************************)

\* The queries are built of a placeholder, the keyword LIMIT, a bracketed
\* number and a word; the one parameter is a number, a one-number array, or
\* a string whose text holds a bracketed limit or offset.
LimitChunks == { Placeholder(1), <<" ","L","I","M","I","T"," ">>, <<"[","5","]">>, <<"x">> }

LimitQueries == {Concat(cs) : cs \in ChunkSeqs(LimitChunks, MaxQueryChunks)}

LimitParams ==
  { <<>>,
    <<NumberValue(7)>>,
    <<ArrayValue(<<NumberValue(25)>>)>>,
    <<StringValue(<<"l","i","m","i","t"," ","[","5","]">>)>>,
    <<StringValue(<<"x"," ","O","f","f","s","e","t"," "," ","[","1","0","]"," ","y">>)>>,
    <<StringValue(<<"l","i","m","i","t"," ","5">>)>> }

\* fetchQuery(query, params) up to the call of the transport: the text of
\* the request it hands over
CallFetchQuery ==
  /\ pc = "idle"
  /\ \E query \in LimitQueries, params \in LimitParams :
       LET frame == FetchQuery(HttpDuckDBConnection(DefaultOptions), "run", query, params)
       IN  /\ call' = [op |-> "fetchQuery", query |-> query, params |-> params]
           /\ out' = IF frame.request.defined
                       THEN Returned(frame.request.value.body.query)
                       ELSE frame.out
  /\ pc' = "done"
  /\ UNCHANGED adapterVars

NextRewrite == CallFetchQuery

SpecRewrite == Init /\ [][NextRewrite]_vars

FetchQueryDone == pc = "done" /\ call.op = "fetchQuery"

\* C30: the limit/offset rewrite made after the substitution leaves the
\* quoted literal of a string parameter as it is: for a query that holds
\* the placeholder of a string parameter, the text sent holds that
\* parameter's literal.
C30_Original ==
  (/\ FetchQueryDone
   /\ Len(call.params) = 1
   /\ call.params[1].type = "string"
   /\ Contains(call.query, Placeholder(1))) =>
    /\ out.kind = "return"
    /\ Contains(out.value, LiteralOf(call.params[1]))

====
